---- MODULE Spec2Model ----
(***************************************************************************)
(* Recruiting-pipeline dashboard (Brommah/hvc): the metrics aggregation    *)
(* engine and the endpoints that feed it.                                  *)
(*                                                                         *)
(* One request is modelled from entry to response: the clock reads, the    *)
(* queries sent to the store, the per-record normalisation and the         *)
(* aggregation passes.  The store (Notion) is the environment: it holds a  *)
(* table of raw pages, answers a query with one page of the matching rows  *)
(* in the requested order, and may fail any query.                         *)
(*                                                                         *)
(* Time.  Instants are integers counting half hours (UTC).  An ISO string  *)
(* is modelled by the instant it denotes; `split('T')[0]` is the UTC day   *)
(* of that instant (instant \div 48).  Math.round((a-b)/3600000) depends   *)
(* only on the number of whole half hours in a-b, so with source           *)
(* timestamps on the half-hour grid the grid is exact; a Tick is the real  *)
(* clock crossing a grid line between two reads.                           *)
(*                                                                         *)
(* Optional values (string | null, number | null) are sequences of length  *)
(* at most one: <<>> is null, <<v>> is a value.                            *)
(***************************************************************************)
EXTENDS Integers, Sequences, FiniteSets, TLC

VARIABLES
    endpoint,      \* which handler serves the request
    db,            \* the store's table: a sequence of raw pages
    tz,            \* the process's timezone offset (local = UTC + tz), half hours
    now,           \* the wall clock (UTC instant, half hours)
    ticksLeft,     \* how many more grid lines the clock crosses during the request
    pc,            \* the request's position
    entered,       \* the clock when the handler was entered
    thirtyDaysAgo, \* the fetch cutoff computed at entry
    startCursor,   \* paging loop: continuation token to send next
    hasMore,       \* paging loop: loop condition
    allPages,      \* paging loop: pages accumulated so far
    sent,          \* the continuation tokens of the queries sent, in order
    answers,       \* has_more of each answer received, in order
    candidates,    \* the normalised records (mapPageToCandidate / inline parse)
    allDays,       \* the day buckets generated so far (UTC day of each)
    response,      \* the HTTP response (<<>> until written)
    rerun,         \* the data of a second run of the aggregation (<<>> until run)
    env,           \* which of NOTION_API_KEY / NOTION_DATABASE_ID the process has
    hook,          \* dashboard: which hook the component uses
    mounted,       \* dashboard: "no" before the effect ran, "yes", "gone" after cleanup
    shown,         \* hook state `candidates` (the list the dashboard shows)
    loading,       \* hook state `loading`
    error,         \* hook state `error` (<<>> is null)
    lastUpdated,   \* hook state `lastUpdated` (<<>> is null)
    interval,      \* the period of the registered timer (<<>> when none)
    elapsed,       \* milliseconds since mount at the last timer tick
    inFlight,      \* the fetches awaiting their response
    fetches,       \* how many times fetchCandidates was called
    fired,         \* how many times the timer fired
    clicks,        \* how many times refetch was called
    served,        \* how many success responses the server has stamped
    lastStep,      \* the fetch the last step settled (<<>> when it settled none)
    delivered,     \* what each fetch handed to the setters (<<>> while nothing)
    notionClient,  \* server process: `let notionClient: Client | null` (<<>> is null)
    clientsMade,   \* server process: how many times `new Client` ran
    reqs           \* server process: the locals of each request in flight

\* what a request leaves alone besides its own variables
hookVars == << hook, mounted, shown, loading, error, lastUpdated, interval, elapsed,
              inFlight, fetches, fired, clicks, served, lastStep, delivered >>

\* the server process with several requests in flight
serverVars == << notionClient, clientsMade, reqs >>

restVars == << env, hookVars, serverVars >>

\* what the dashboard hook leaves alone: one request and its process
requestVars == << endpoint, db, tz, now, ticksLeft, pc, entered, thirtyDaysAgo,
                 startCursor, hasMore, allPages, sent, answers, candidates, allDays,
                 response, rerun, env, serverVars >>

vars == << endpoint, db, tz, now, ticksLeft, pc, entered, thirtyDaysAgo, startCursor,
           hasMore, allPages, sent, answers, candidates, allDays, response, rerun,
           restVars >>

-----------------------------------------------------------------------------
(* Bounds of the model *)

\* stands for page_size: 100 (the store's default and maximum)
PageSize == 2
\* records in the table of a paging scenario
MaxPagingRecords == 5
\* records in the table of a filter scenario
MaxFilterRecords == 3
\* records in the table of a review scenario
MaxReviewRecords == 2
\* records in the table of an ordering scenario (the clock moves)
MaxOrderRecords == 2
\* records in the table of a score scenario
MaxScoreRecords == 2
\* the zone offsets tried are -TzShift, 0 and +TzShift half hours
TzShift == 4
\* grid lines the clock may cross during one request
MaxTicks == 2
\* records in the table of a week-grouping scenario
MaxWeekRecords == 2
\* records in the table of a running-total scenario
MaxTrendRecords == 3
\* records in the table of a conversion-rate scenario
MaxRateRecords == 2
\* records in the table of a malformed-property scenario
MaxShapeRecords == 2
\* records in the table of a sort-order scenario
MaxSortRecords == 3
\* records in the table of a window-edge scenario
MaxEdgeRecords == 2
\* requests the server process has in flight at once
MaxRequests == 2
\* records in the table the concurrent requests read
MaxServerRecords == 3
\* records in the table of a store that answers anything
MaxLoopRecords == 3
\* queries one request sends to a store that answers anything
MaxQueries == 4
\* fetched records up to which the aggregation is run a second time
MaxRerunRecords == 2
\* calls of fetchCandidates during one life of the dashboard
MaxFetches == 4

(* Program constants *)

\* for (let i = 29; i >= 0; i--)
WindowLast == 29
\* setDate(getDate() - 30)
CutoffDays == 30
\* hoursSinceLastActivity > 24
OverdueHours == 24
\* aiScore >= 7
HvcScore == 7
\* half hours in a calendar day, and in the hour Math.round rounds to
DayLen == 48
HourLen == 2
\* hoursSinceLastActivity / 24
HoursPerDay == 24

\* 00:00 UTC of the day the modelled requests arrive on
StartOfToday == 40 * DayLen

-----------------------------------------------------------------------------
(* Optional values *)

Null == << >>
Some(v) == << v >>
IsNull(x) == x = << >>
Val(x) == x[1]

\* JS truthiness of an optional string: null and '' are falsy
Truthy(x) == x # Null /\ Val(x) # ""

\* Math.round(n / d) for d > 0: floor(n/d + 1/2)
Round(n, d) == (2 * n + d) \div (2 * d)

RECURSIVE SeqSum(_)
SeqSum(s) == IF s = << >> THEN 0 ELSE Head(s) + SeqSum(Tail(s))

Range(s) == { s[i] : i \in DOMAIN s }

-----------------------------------------------------------------------------
(* Raw pages: the store's rows *)

\* the canonical label 'Hot Candidate <fire emoji>' (the module is ASCII: the emoji is
\* written [fire]); "Hot Candidate" is a proper prefix of it
HotLabel == "Hot Candidate [fire]"

\* a property of a page: its kind tag, the formula's result kind, its payload, and
\* whether the member that carries the payload (prop.title, prop.formula, ...) is
\* there ("ok") or not ("missing": undefined or null)
Prop(type, v) == [type |-> type, ftype |-> "", v |-> v, shape |-> "ok"]
Formula(ftype, v) == [type |-> "formula", ftype |-> ftype, v |-> v, shape |-> "ok"]

\* a property tagged `type` whose payload member is missing
Malformed(type) == [type |-> type, ftype |-> "", v |-> Null, shape |-> "missing"]

\* the logical content of a row; Row(id, f) lays it out under the table's schema
Base ==
    [ created |-> StartOfToday, name |-> Some("Ann"), role |-> Some("Engineer"),
      status |-> Some("HR Screening"), priority |-> Null, stratification |-> Null,
      hot |-> Some(HotLabel), hours |-> Some(30), interview |-> Null,
      aiScore |-> Some(8), humanScore |-> Null, aiAt |-> Some(StartOfToday), cvAt |-> Null,
      passed |-> FALSE,
      nameShape |-> "ok", hoursShape |-> "ok", roleShape |-> "ok" ]

\* the columns of the table
Columns ==
    { "Name", "Role", "Status", "Priority", "Stratification",
      "Hot Candidate?", "Hours Since Last Activity", "Interview Status",
      "AI Score", "Human Score", "Date Added", "AI Processed At",
      "CV Verified by Lynn", "Passed Human Filter" }

\* roleShape "absent": the page has no Role key; "people": Role carries a kind
\* the normalizer does not know
Row(id, f) ==
    [ id |-> id,
      created_time |-> f.created,
      properties |->
        [ k \in (IF f.roleShape = "absent" THEN Columns \ { "Role" } ELSE Columns) |->
            CASE k = "Name" /\ f.nameShape = "missing" -> Malformed("title")
              [] k = "Hours Since Last Activity" /\ f.hoursShape = "missing" ->
                     Malformed("formula")
              [] k = "Role" /\ f.roleShape = "people" -> Prop("people", f.role)
              [] k = "Name" -> Prop("title", f.name)
              [] k = "Role" -> Prop("select", f.role)
              [] k = "Status" -> Prop("status", f.status)
              [] k = "Priority" -> Prop("select", f.priority)
              [] k = "Stratification" -> Prop("select", f.stratification)
              [] k = "Hot Candidate?" -> Prop("select", f.hot)
              [] k = "Hours Since Last Activity" -> Formula("number", f.hours)
              [] k = "Interview Status" -> Prop("select", f.interview)
              [] k = "AI Score" -> Prop("number", f.aiScore)
              [] k = "Human Score" -> Prop("number", f.humanScore)
              [] k = "Date Added" -> Prop("created_time", Some(f.created))
              [] k = "AI Processed At" -> Prop("date", f.aiAt)
              [] k = "CV Verified by Lynn" -> Prop("date", f.cvAt)
              [] k = "Passed Human Filter" -> Prop("checkbox", Some(f.passed)) ] ]

-----------------------------------------------------------------------------
(* Record Normalizer *)

\* `x || null` on an optional string
OrNull(x) == IF Truthy(x) THEN x ELSE Null

\* server/notion.ts getPropertyValue (the same switch is in api/pending-review.ts
\* and in the five-metric handler)
getPropertyValue(properties, key) ==
    IF key \notin DOMAIN properties THEN Null
    ELSE LET prop == properties[key] IN
         CASE prop.type \in { "title", "rich_text", "select", "status", "url", "date",
                              "created_time", "last_edited_time" } ->
                  IF prop.type \in { "created_time", "date" }
                  THEN prop.v          \* an ISO string is never ''
                  ELSE OrNull(prop.v)
           [] prop.type \in { "number", "checkbox" } -> prop.v
           [] prop.type = "formula" ->
                  IF prop.ftype \in { "number", "string", "boolean", "date" }
                  THEN prop.v ELSE Null
           [] OTHER -> Null

\* api/ceo-metrics.ts getPropertyValue: the shorter switch of the serverless
\* ceo-metrics and awaiting-review handlers (no checkbox, rich_text, url;
\* formula only when its result is a number)
getPropertyValueLite(properties, key) ==
    IF key \notin DOMAIN properties THEN Null
    ELSE LET prop == properties[key] IN
         CASE prop.type \in { "title", "select", "status" } -> OrNull(prop.v)
           [] prop.type \in { "date", "created_time", "number" } -> prop.v
           [] prop.type = "formula" ->
                  IF prop.ftype = "number" THEN prop.v ELSE Null
           [] OTHER -> Null

-----------------------------------------------------------------------------
(* Where the normalizer throws *)

\* server/notion.ts getPropertyValue: `prop.title.map`, `prop.rich_text.map` and
\* `prop.formula.type` dereference the payload member without a guard
getPropertyValueThrows(properties, key) ==
    /\ key \in DOMAIN properties
    /\ properties[key].shape = "missing"
    /\ properties[key].type \in { "title", "rich_text", "formula" }

\* the serverless getPropertyValue variants: `(prop.title || [])` is guarded,
\* `formula.type` is not
getPropertyValueApiThrows(properties, key) ==
    /\ key \in DOMAIN properties
    /\ properties[key].shape = "missing"
    /\ properties[key].type = "formula"

-----------------------------------------------------------------------------
(* The store: filter, sort and page a query (the consumed boundary) *)

Endpoints ==
    { "candidates",      \* server getHighValueCandidates
      "pendingServer",   \* server getPendingHumanReview
      "pendingApi",      \* serverless pending-review handler
      "ceoServer",       \* server getCEOMetrics, four graphs
      "ceoApi",          \* serverless ceo-metrics handler, four graphs
      "ceoSimple",       \* getCEOMetrics, simplified variant (dailyData)
      "ceoBacklog",      \* serverless ceo-metrics handler, backlog / overdue variant
      "ceoFive",         \* serverless ceo-metrics handler, five-metric variant
      "awaitingServer",  \* server getAwaitingReview
      "awaitingApi" }    \* serverless awaiting-review handler

\* the endpoints whose fetch is a `while (hasMore)` loop
Paginated == { "ceoServer", "ceoApi", "ceoSimple", "ceoBacklog",
               "awaitingServer", "awaitingApi" }

\* the endpoints that build Candidate objects with mapPageToCandidate
UsesMapPage == { "candidates", "pendingServer", "pendingApi", "ceoServer", "ceoSimple" }

\* the endpoints that generate the 30 day buckets
HasWindow == { "ceoServer", "ceoApi", "ceoSimple", "ceoBacklog", "ceoFive" }

StoreVal(page, key) == page.properties[key].v

\* the store's reading of each handler's `filter:` literal
StoreMatches(e, page, cutoff) ==
    LET status == StoreVal(page, "Status")
        recent == page.created_time >= cutoff
    IN  CASE e = "candidates" ->
               /\ recent
               /\ status # Some("Company Rejected")
               /\ status # Some("Accepted")
               /\ StoreVal(page, "Interview Status") # Some("Completed")
               /\ \/ StoreVal(page, "Hot Candidate?") = Some(HotLabel)
                  \/ StoreVal(page, "Priority") = Some("1st")
                  \/ StoreVal(page, "Stratification") = Some("H")
          [] e = "pendingServer" ->
               /\ StoreVal(page, "AI Processed At") # Null
               /\ StoreVal(page, "CV Verified by Lynn") = Null
               /\ StoreVal(page, "Passed Human Filter") = Some(FALSE)
               /\ status # Some("Company Rejected")
               /\ status # Some("Candidate Rejected")
          [] e = "pendingApi" ->
               status = Some("HR Screening") \/ status = Some("HM Screening")
          [] e = "awaitingServer" ->
               recent /\ StoreVal(page, "CV Verified by Lynn") = Null
          [] e = "awaitingApi" ->
               /\ recent
               /\ StoreVal(page, "CV Verified by Lynn") = Null
               /\ status # Some("Company Rejected")
               /\ status # Some("Candidate Rejected")
          [] OTHER -> recent

\* the `sorts:` literal as an ascending integer key (empty values last)
SortKey(e, page) ==
    LET last(x, sign) == IF IsNull(x) THEN 1000000 ELSE sign * Val(x)
    IN  CASE e = "candidates" -> last(StoreVal(page, "Hours Since Last Activity"), -1)
          [] e = "pendingServer" -> last(StoreVal(page, "AI Processed At"), 1)
          [] e = "pendingApi" -> page.created_time
          [] e \in { "awaitingServer", "awaitingApi" } ->
                 last(StoreVal(page, "AI Score"), -1)
          [] OTHER -> 0

RECURSIVE Insert(_, _, _)
Insert(sorted, j, keys) ==
    IF sorted = << >> THEN << j >>
    ELSE IF keys[j] < keys[Head(sorted)] THEN << j >> \o sorted
    ELSE << Head(sorted) >> \o Insert(Tail(sorted), j, keys)

RECURSIVE SortIdx(_, _)
\* the stable ascending order of the indices 1..n by keys
SortIdx(n, keys) == IF n = 0 THEN << >> ELSE Insert(SortIdx(n - 1, keys), n, keys)

\* every row the table holds for the endpoint's filter, in the requested order
Matching(e, table, cutoff) ==
    LET rows == SelectSeq(table, LAMBDA p : StoreMatches(e, p, cutoff))
        keys == [ i \in DOMAIN rows |-> SortKey(e, rows[i]) ]
        perm == SortIdx(Len(rows), keys)
    IN  [ i \in DOMAIN rows |-> rows[perm[i]] ]

\* one answer of databases.query: a page of results, has_more, next_cursor.
\* A cursor is the index of the next row; no cursor starts at the first row.
StoreQuery(e, table, cutoff, cursor) ==
    LET rows == Matching(e, table, cutoff)
        from == IF IsNull(cursor) THEN 1 ELSE Val(cursor)
        upto == IF from + PageSize - 1 < Len(rows) THEN from + PageSize - 1 ELSE Len(rows)
    IN  [ results |-> SubSeq(rows, from, upto),
          has_more |-> upto < Len(rows),
          next_cursor |-> IF upto < Len(rows) THEN Some(upto + 1) ELSE Null ]

-----------------------------------------------------------------------------
(* Normalisation of one page, per handler *)

\* Math.round((Date.now() - new Date(iso).getTime()) / (1000 * 60 * 60)), null base -> null
HoursSince(clock, iso) ==
    IF IsNull(iso) THEN Null ELSE Some(Round(clock - Val(iso), HourLen))

\* `(value as boolean) || false`
OrFalse(x) == IF IsNull(x) THEN FALSE ELSE Val(x)

\* mapPageToCandidate of server/notion.ts; in api/pending-review.ts the same
\* function measures hoursSinceAiReview from 'Date Added' instead
mapPageToCandidate(page, clock, e) ==
    LET props == page.properties IN
    [ id |-> page.id,
      name |-> IF Truthy(getPropertyValue(props, "Name"))
               THEN getPropertyValue(props, "Name") ELSE Some("Unknown"),
      role |-> getPropertyValue(props, "Role"),
      status |-> getPropertyValue(props, "Status"),
      priority |-> getPropertyValue(props, "Priority"),
      stratification |-> getPropertyValue(props, "Stratification"),
      hotCandidate |-> getPropertyValue(props, "Hot Candidate?") = Some(HotLabel),
      hoursSinceLastActivity |-> getPropertyValue(props, "Hours Since Last Activity"),
      interviewStatus |-> getPropertyValue(props, "Interview Status"),
      aiScore |-> getPropertyValue(props, "AI Score"),
      humanScore |-> getPropertyValue(props, "Human Score"),
      dateAdded |-> getPropertyValue(props, "Date Added"),
      aiProcessedAt |-> getPropertyValue(props, "AI Processed At"),
      cvVerifiedByLynn |-> getPropertyValue(props, "CV Verified by Lynn"),
      passedHumanFilter |-> OrFalse(getPropertyValue(props, "Passed Human Filter")),
      hoursSinceAiReview |->
          IF e = "pendingApi"
          THEN HoursSince(clock, getPropertyValue(props, "Date Added"))
          ELSE HoursSince(clock, getPropertyValue(props, "AI Processed At")) ]

\* a label test by prefix instead of equality
isHVCByPrefix(props) ==
    \/ getPropertyValue(props, "Hot Candidate?") \in { Some(HotLabel), Some("Hot Candidate") }
    \/ getPropertyValue(props, "Priority") = Some("1st")
    \/ getPropertyValue(props, "Stratification") = Some("H")

\* isHVC(props) of the five-metric handler
isHVC(props) ==
    \/ getPropertyValue(props, "Hot Candidate?") = Some(HotLabel)
    \/ getPropertyValue(props, "Priority") = Some("1st")
    \/ getPropertyValue(props, "Stratification") = Some("H")

\* `const isHvc = ...` of the backlog / overdue handler
isHvcInline(props) ==
    \/ getPropertyValueLite(props, "Hot Candidate?") = Some(HotLabel)
    \/ getPropertyValueLite(props, "Priority") = Some("1st")
    \/ getPropertyValueLite(props, "Stratification") = Some("H")

\* `const isOverdue = hoursSinceLastActivity !== null && hoursSinceLastActivity > 24`
isOverdueInline(hours) == hours # Null /\ Val(hours) > OverdueHours

\* `const isActive = status !== ... && ...`
isActiveInline(status) ==
    /\ status # Some("Company Rejected")
    /\ status # Some("Candidate Rejected")
    /\ status # Some("Accepted")

\* `(getPropertyValue(..., 'Date Added') as string) || page.created_time`
DateAddedOrCreated(page) ==
    IF IsNull(getPropertyValueLite(page.properties, "Date Added"))
    THEN Some(page.created_time)
    ELSE getPropertyValueLite(page.properties, "Date Added")

\* allPages.map(page => {...}) of the backlog / overdue handler
parseBacklog(page) ==
    LET props == page.properties
        hours == getPropertyValueLite(props, "Hours Since Last Activity")
        status == getPropertyValueLite(props, "Status")
    IN  [ id |-> page.id,
          role |-> IF Truthy(getPropertyValueLite(props, "Role"))
                   THEN getPropertyValueLite(props, "Role") ELSE Some("Unknown"),
          status |-> status,
          aiScore |-> getPropertyValueLite(props, "AI Score"),
          dateAdded |-> DateAddedOrCreated(page),
          isHvc |-> isHvcInline(props),
          isOverdue |-> isOverdueInline(hours),
          isActive |-> isActiveInline(status),
          hoursSinceLastActivity |-> hours ]

\* allPages.map(page => {...}) of the serverless four-graph handler
parseApi(page) ==
    LET props == page.properties IN
    [ id |-> page.id,
      role |-> IF Truthy(getPropertyValueLite(props, "Role"))
               THEN getPropertyValueLite(props, "Role") ELSE Some("Unknown"),
      status |-> getPropertyValueLite(props, "Status"),
      interviewStatus |-> getPropertyValueLite(props, "Interview Status"),
      aiScore |-> getPropertyValueLite(props, "AI Score"),
      humanScore |-> getPropertyValueLite(props, "Human Score"),
      hoursSinceLastActivity |-> getPropertyValueLite(props, "Hours Since Last Activity"),
      dateAdded |-> DateAddedOrCreated(page) ]

\* hasInterview(props): the interview status contains one of the positive words
\* (case-insensitive substring test; the statuses tried contain a positive word
\* only when they are one)
hasInterview(props) ==
    LET interviewStatus == getPropertyValue(props, "Interview Status") IN
    /\ Truthy(interviewStatus)
    /\ Val(interviewStatus) \in { "Scheduled", "Completed", "Phone Screen", "On-site",
                                  "Final Round", "Offer" }

\* response.results.map(page => ({...})) of the five-metric handler
parseFive(page) ==
    LET props == page.properties IN
    [ id |-> page.id,
      createdTime |-> page.created_time,
      dateAdded |-> getPropertyValue(props, "Date Added"),
      hoursActivity |-> getPropertyValue(props, "Hours Since Last Activity"),
      aiScore |-> getPropertyValue(props, "AI Score"),
      humanScore |-> getPropertyValue(props, "Human Score"),
      aiProcessedAt |-> getPropertyValue(props, "AI Processed At"),
      cvVerifiedAt |-> getPropertyValue(props, "CV Verified by Lynn"),
      isHVC |-> isHVC(props),
      hasInterview |-> hasInterview(props) ]

\* allPages.map(page => ({...})) of getAwaitingReview and its serverless twin
parseAwaiting(page, e) ==
    LET get(k) == IF e = "awaitingServer" THEN getPropertyValue(page.properties, k)
                  ELSE getPropertyValueLite(page.properties, k)
    IN  [ id |-> page.id,
          name |-> IF Truthy(get("Name")) THEN get("Name") ELSE Some("Unknown"),
          role |-> get("Role"),
          aiScore |-> get("AI Score"),
          dateAdded |-> get("Date Added") ]

\* the columns each handler's normalisation reads
ReadKeys(e) ==
    CASE e \in UsesMapPage -> Columns
      [] e = "ceoBacklog" ->
           { "Role", "Status", "AI Score", "Date Added", "Hot Candidate?", "Priority",
             "Stratification", "Hours Since Last Activity" }
      [] e = "ceoApi" ->
           { "Role", "Status", "Interview Status", "AI Score", "Human Score",
             "Hours Since Last Activity", "Date Added" }
      [] e = "ceoFive" ->
           { "Date Added", "Hours Since Last Activity", "AI Score", "Human Score",
             "AI Processed At", "CV Verified by Lynn", "Hot Candidate?", "Priority",
             "Stratification", "Status", "Interview Status" }
      [] OTHER -> { "Name", "Role", "AI Score", "Date Added" }

\* normalising the page throws a TypeError in handler e
MapThrows(page, e) ==
    \E k \in ReadKeys(e) :
        IF e \in { "candidates", "pendingServer", "ceoServer", "ceoSimple", "awaitingServer" }
        THEN getPropertyValueThrows(page.properties, k)
        ELSE getPropertyValueApiThrows(page.properties, k)

parsePage(page, e) ==
    CASE e = "ceoBacklog" -> parseBacklog(page)
      [] e = "ceoApi" -> parseApi(page)
      [] e = "ceoFive" -> parseFive(page)
      [] OTHER -> parseAwaiting(page, e)

-----------------------------------------------------------------------------
(* Calendar arithmetic of Date in a zone with a fixed offset *)

\* d.setDate(d.getDate() - i): i local calendar days back, same local time of day
setDateBack(d, i) == d - i * DayLen

\* d.setHours(0, 0, 0, 0): local midnight of d's local day
setHoursMidnight(d, off) == ((d + off) \div DayLen) * DayLen - off

\* d.toISOString().split('T')[0]: the UTC calendar day of d
isoDate(d) == d \div DayLen

\* the local calendar day of instant d
localDate(d, off) == (d + off) \div DayLen

\* date.getDay() of a calendar day: 0 = Sunday; day 0 is a Thursday, as 1970-01-01 is
DayOfWeek(day) == (day + 4) % 7

\* getWeekStart(dateStr): new Date('YYYY-MM-DD') is 00:00 UTC of that day; getDay
\* and getDate read the local calendar, setDate(diff) moves the local date and
\* keeps the local time of day; the result is the UTC date of the moved instant
getWeekStart(day, off) ==
    LET date == day * DayLen
        dow == DayOfWeek(localDate(date, off))
        shift == IF dow = 0 THEN 0 - 6 ELSE 1 - dow
    IN  isoDate(setDateBack(date, 0 - shift))

\* the date pushed by iteration i of the day loop
\*   four-graph and backlog variants: new Date(); setDate(-i); toISOString()
\*   getLast30Days: ... setDate(-i); setHours(0,0,0,0); toISOString()
dayBucket(e, clock, off, i) ==
    IF e \in { "ceoSimple", "ceoFive" }
    THEN isoDate(setHoursMidnight(setDateBack(clock, i), off))
    ELSE isoDate(setDateBack(clock, i))

-----------------------------------------------------------------------------
(* Filter predicates and aggregators *)

CountIf(s, P(_)) == Len(SelectSeq(s, P))

\* `iso?.split('T')[0] === day` on an optional ISO string
OnDay(iso, day) == iso # Null /\ Val(iso) \div DayLen = day

\* "24+ hours": the threshold itself counted as overdue
needsFollowUpFrom24(c) ==
    IF c.hoursSinceLastActivity = Null THEN TRUE
    ELSE Val(c.hoursSinceLastActivity) >= OverdueHours

\* the overdue test of getHighValueCandidates' second filter
needsFollowUp(c) ==
    IF c.hoursSinceLastActivity = Null THEN TRUE
    ELSE Val(c.hoursSinceLastActivity) > OverdueHours

\* getHighValueCandidates: allCandidates.filter(...)
overdueNeedingFollowUp(allCandidates) == SelectSeq(allCandidates, needsFollowUp)

\* backlog / overdue handler: candidates.filter(c => c.isHvc && c.isOverdue && c.isActive)
overdueHvcs(cands) == SelectSeq(cands, LAMBDA c : c.isHvc /\ c.isOverdue /\ c.isActive)

\* AI Score >= 7 AND Status in (HR Screening, HM CV Screening)
hrBacklog(cands) ==
    SelectSeq(cands, LAMBDA c : /\ c.aiScore # Null
                                /\ Val(c.aiScore) >= HvcScore
                                /\ Truthy(c.status)
                                /\ Val(c.status) \in { "HR Screening", "HM CV Screening" })

\* a series that forgets the running total: each day's own count
DailyCount(members, days, upto) ==
    IF upto = 0 THEN 0
    ELSE CountIf(members, LAMBDA c : OnDay(c.dateAdded, days[upto]))

\* `let cumulative = 0; allDays.map(day => { cumulative += byDay[day] || 0; ... })`
RECURSIVE Cumulative(_, _, _)
Cumulative(members, days, upto) ==
    IF upto = 0 THEN 0
    ELSE Cumulative(members, days, upto - 1)
         + CountIf(members, LAMBDA c : OnDay(c.dateAdded, days[upto]))

backlogTrend(cands, days) ==
    [ i \in DOMAIN days |->
        [ date |-> days[i],
          count |-> Cumulative(hrBacklog(cands), days, i),
          newItems |-> CountIf(hrBacklog(cands), LAMBDA c : OnDay(c.dateAdded, days[i])) ] ]

overdueHvcTrend(cands, days) ==
    [ i \in DOMAIN days |->
        [ date |-> days[i], count |-> Cumulative(overdueHvcs(cands), days, i) ] ]

\* the statuses that count as "reached interview"
INTERVIEW_STATUSES ==
    { "Initial Evaluation Call", "CEO Interview", "Tech Test Task", "Collab Writing",
      "Trial Period", "Exploratory Call", "Tech Interview", "Accepted" }

RECURSIVE Descending(_)
\* the elements of a finite set of integers, greatest first
Descending(S) ==
    IF S = { } THEN << >>
    ELSE LET m == CHOOSE x \in S : \A y \in S : x >= y
         IN  << m >> \o Descending(S \ { m })

\* the elements of a finite set of integers in ascending order
\* (Object.keys(...).sort() on ISO dates: the text order is the calendar order)
RECURSIVE Ascending(_)
Ascending(S) ==
    IF S = { } THEN << >>
    ELSE LET m == CHOOSE x \in S : \A y \in S : x <= y
         IN  << m >> \o Ascending(S \ { m })

\* graph 1: interview-stage candidates grouped by the week they were added in;
\* daysInSystem = hours ? hours / 24 : 0, avgDays = Math.round(totalDays / count)
timeToInterviewTrend(cands, off) ==
    LET members == SelectSeq(cands, LAMBDA c : /\ Truthy(c.status)
                                               /\ Val(c.status) \in INTERVIEW_STATUSES
                                               /\ c.dateAdded # Null)
        weekOf(c) == getWeekStart(isoDate(Val(c.dateAdded)), off)
        hoursOf(c) == IF c.hoursSinceLastActivity = Null THEN 0
                      ELSE Val(c.hoursSinceLastActivity)
        weeks == Ascending({ weekOf(members[i]) : i \in DOMAIN members })
    IN  [ k \in DOMAIN weeks |->
            LET inWeek == SelectSeq(members, LAMBDA c : weekOf(c) = weeks[k])
                totalHours == SeqSum([ j \in DOMAIN inWeek |-> hoursOf(inWeek[j]) ])
            IN  [ week |-> weeks[k],
                  avgDays |-> Round(totalHours, HoursPerDay * Len(inWeek)),
                  count |-> Len(inWeek) ] ]

\* four-graph variants: AI Score >= 7 with both scores
hvcsWithBothScores(cands) ==
    SelectSeq(cands, LAMBDA c : /\ c.aiScore # Null
                                /\ Val(c.aiScore) >= HvcScore
                                /\ c.humanScore # Null)

\* one entry of allDays.map(...) for graph 2; avgDelta is in tenths
\* (Math.round(x * 10) / 10), null when the day has no data
aiVsHumanEntry(cands, day) ==
    LET members == SelectSeq(hvcsWithBothScores(cands), LAMBDA c : OnDay(c.dateAdded, day))
        totalDelta == SeqSum([ i \in DOMAIN members |->
                                 Val(members[i].humanScore) - Val(members[i].aiScore) ])
    IN  [ date |-> day,
          avgDelta |-> IF members = << >> THEN Null
                       ELSE Some(Round(10 * totalDelta, Len(members))),
          count |-> Len(members) ]

\* graph 2 without its trailing filter
everyDay(entries) == entries

\* the trailing `.filter(d => d.count > 0)` of graph 2
onlyDaysWithData(entries) == SelectSeq(entries, LAMBDA d : d.count > 0)

aiVsHumanTrend(cands, days) ==
    onlyDaysWithData([ i \in DOMAIN days |-> aiVsHumanEntry(cands, days[i]) ])

\* graph 4: average hours of the candidates added on each day, null for an empty day
responseTimeTrend(cands, days) ==
    [ i \in DOMAIN days |->
        LET members == SelectSeq(cands, LAMBDA c : /\ OnDay(c.dateAdded, days[i])
                                                   /\ c.hoursSinceLastActivity # Null)
            totalHours == SeqSum([ j \in DOMAIN members |->
                                     Val(members[j].hoursSinceLastActivity) ])
        IN  [ date |-> days[i],
              avgHours |-> IF members = << >> THEN Null
                           ELSE Some(Round(totalHours, Len(members))),
              count |-> Len(members) ] ]

\* applications per day (the per-role columns sum to `total`)
applicationsByDay(cands, days) ==
    [ i \in DOMAIN days |->
        [ date |-> days[i],
          total |-> CountIf(cands, LAMBDA c : OnDay(c.dateAdded, days[i])) ] ]

\* simplified variant: days.map(({day, date}) => {...})
dailyData(cands, days) ==
    [ i \in DOMAIN days |->
        LET dayCandidates == SelectSeq(cands, LAMBDA c : OnDay(c.dateAdded, days[i]))
            hoursValues == SelectSeq(dayCandidates,
                                     LAMBDA c : c.hoursSinceLastActivity # Null)
            total == SeqSum([ j \in DOMAIN hoursValues |->
                                Val(hoursValues[j].hoursSinceLastActivity) ])
        IN  [ date |-> days[i],
              newCandidates |-> Len(dayCandidates),
              verified |-> CountIf(cands, LAMBDA c : OnDay(c.cvVerifiedByLynn, days[i])),
              avgResponseHours |-> IF hoursValues = << >> THEN 0
                                   ELSE Round(total, Len(hoursValues)) ] ]

\* five-metric variant: New HVCs vs processed HVCs per day
throughput(cands, days) ==
    [ i \in DOMAIN days |->
        [ date |-> days[i],
          newHVCs |-> CountIf(cands, LAMBDA c :
                        /\ c.isHVC
                        /\ OnDay(IF c.dateAdded = Null THEN Some(c.createdTime)
                                 ELSE c.dateAdded, days[i])),
          processed |-> CountIf(cands, LAMBDA c :
                        c.isHVC /\ OnDay(c.cvVerifiedAt, days[i])) ] ]

\* the value JavaScript gives 0 / 0 (NaN), as an integer no rate or average can take
NotANumber == 0 - 1

\* a rate computed without looking at the total
rateUnguarded(converted, total) ==
    IF total = 0 THEN NotANumber ELSE Round(1000 * converted, total)

\* `total > 0 ? (converted / total) * 100 : 0`, then Math.round(rate * 10) / 10:
\* the rate in tenths of a percent
hvcQualityRate(converted, total) ==
    IF total > 0 THEN Round(1000 * converted, total) ELSE 0

\* the Date of a bucket of getLast30Days: the local midnight whose UTC date is `date`
dateObjOf(date, off) == date * DayLen + ((0 - off) % DayLen)

\* five-metric variant: of the HVCs added up to each day's local midnight, how
\* many reached an interview
hvcQuality(cands, days, off) ==
    [ i \in DOMAIN days |->
        LET hvcsBefore == SelectSeq(cands, LAMBDA c :
                            /\ (IF c.dateAdded = Null THEN c.createdTime
                                ELSE Val(c.dateAdded)) <= dateObjOf(days[i], off)
                            /\ c.isHVC)
            total == Len(hvcsBefore)
            converted == CountIf(hvcsBefore, LAMBDA c : c.hasInterview)
        IN  [ date |-> days[i],
              rate |-> hvcQualityRate(converted, total),
              total |-> total,
              converted |-> converted ] ]

\* five-metric summary: Math.round(latestConversion?.rate || 0)
latestConversionRate(quality) ==
    IF quality = << >> THEN 0 ELSE Round(quality[Len(quality)].rate, 10)

RECURSIVE Distinct(_)
\* the keys of an object / the elements of a Set, in insertion order: each
\* value once, where it first occurs
Distinct(s) ==
    IF s = << >> THEN << >>
    ELSE LET front == Distinct(SubSeq(s, 1, Len(s) - 1))
             last == s[Len(s)]
         IN  IF last \in Range(front) THEN front ELSE Append(front, last)

\* the entries left in insertion order
unsorted(entries) == entries

RECURSIVE sortByAvgHoursDesc(_)
\* `.sort((a, b) => b.avgHours - a.avgHours)`: stable, highest average first
sortByAvgHoursDesc(entries) ==
    IF entries = << >> THEN << >>
    ELSE LET front == sortByAvgHoursDesc(SubSeq(entries, 1, Len(entries) - 1))
             last == entries[Len(entries)]
             ahead == SelectSeq(front, LAMBDA x : x.avgHours >= last.avgHours)
             behind == SelectSeq(front, LAMBDA x : x.avgHours < last.avgHours)
         IN  ahead \o << last >> \o behind

\* graph 3: `if (!c.status || c.hoursSinceLastActivity === null) return`, then
\* total and count per status, avgHours = Math.round(totalHours / count)
stageDwellTime(cands) ==
    LET members == SelectSeq(cands, LAMBDA c : /\ Truthy(c.status)
                                               /\ c.hoursSinceLastActivity # Null)
        statuses == Distinct([ i \in DOMAIN members |-> Val(members[i].status) ])
    IN  sortByAvgHoursDesc(
          [ k \in DOMAIN statuses |->
              LET group == SelectSeq(members, LAMBDA c : Val(c.status) = statuses[k])
                  totalHours == SeqSum([ j \in DOMAIN group |->
                                           Val(group[j].hoursSinceLastActivity) ])
              IN  [ status |-> statuses[k],
                    avgHours |-> Round(totalHours, Len(group)),
                    count |-> Len(group) ] ])

\* `c.role || 'Unknown'`
roleOf(c) == IF Truthy(c.role) THEN Val(c.role) ELSE "Unknown"

\* `roleBreakdown[role] = (roleBreakdown[role] || 0) + 1` over every candidate
roleBreakdown(cands) ==
    [ r \in { roleOf(cands[i]) : i \in DOMAIN cands } |->
        CountIf(cands, LAMBDA c : roleOf(c) = r) ]

\* allRoles in insertion order: server/notion.ts adds every candidate's role, the
\* other variants only the role of a candidate that has a dateAdded day
allRoles(e, cands) ==
    LET counted == IF e = "ceoServer" THEN cands
                   ELSE SelectSeq(cands, LAMBDA c : c.dateAdded # Null)
    IN  Distinct([ i \in DOMAIN counted |-> roleOf(counted[i]) ])

\* the role names of the model in the order of their UTF-16 code units
RoleNames == << "Designer", "Engineer", "Unknown" >>

\* Array.from(allRoles) as it stands
asInserted(names) == names

\* `.sort()` of an array of strings
sortStrings(names) == SelectSeq(RoleNames, LAMBDA r : r \in Range(names))

\* simplified variant: allHours.length > 0 ? Math.round(sum / length) : 0
avgResponseHours(cands) ==
    LET allHours == SelectSeq(cands, LAMBDA c : c.hoursSinceLastActivity # Null)
        total == SeqSum([ j \in DOMAIN allHours |-> Val(allHours[j].hoursSinceLastActivity) ])
    IN  IF Len(allHours) > 0 THEN Round(total, Len(allHours)) ELSE 0

\* simplified variant: candidates with an interview status other than '', None, N/A
withInterview(cands) ==
    CountIf(cands, LAMBDA c : /\ Truthy(c.interviewStatus)
                              /\ Val(c.interviewStatus) \notin { "", "None", "N/A" })

\* simplified variant: length > 0 ? Math.round((withInterview / length) * 100) : 0
conversionRate(cands) ==
    IF Len(cands) > 0 THEN Round(100 * withInterview(cands), Len(cands)) ELSE 0

\* the `data` of each endpoint's 200 response
ResponseData(e, cands, days) ==
    CASE e = "candidates" -> overdueNeedingFollowUp(cands)
      [] e \in { "pendingServer", "pendingApi", "awaitingServer", "awaitingApi" } -> cands
      [] e \in { "ceoServer", "ceoApi" } ->
           [ summary |-> [ totalApplications |-> Len(cands),
                           totalHrBacklog |-> Len(hrBacklog(cands)),
                           hvcsWithScores |-> Len(hvcsWithBothScores(cands)) ],
             timeToInterviewTrend |-> timeToInterviewTrend(cands, tz),
             aiVsHumanTrend |-> aiVsHumanTrend(cands, days),
             stageDwellTime |-> stageDwellTime(cands),
             responseTimeTrend |-> responseTimeTrend(cands, days),
             applicationsByDay |-> applicationsByDay(cands, days),
             roles |-> sortStrings(allRoles(e, cands)),
             roleBreakdown |-> roleBreakdown(cands) ]
      [] e = "ceoSimple" ->
           LET dd == dailyData(cands, days) IN
           [ dailyData |-> dd,
             summary |-> [ totalNew |-> SeqSum([ i \in DOMAIN dd |-> dd[i].newCandidates ]),
                           totalVerified |-> SeqSum([ i \in DOMAIN dd |-> dd[i].verified ]),
                           backlog |-> CountIf(cands, LAMBDA c :
                                                 c.cvVerifiedByLynn = Null),
                           avgResponseHours |-> avgResponseHours(cands),
                           conversionRate |-> conversionRate(cands) ] ]
      [] e = "ceoBacklog" ->
           [ summary |-> [ totalApplications |-> Len(cands),
                           totalHrBacklog |-> Len(hrBacklog(cands)),
                           totalOverdueHvc |-> Len(overdueHvcs(cands)) ],
             backlogTrend |-> backlogTrend(cands, days),
             overdueHvcTrend |-> overdueHvcTrend(cands, days),
             roles |-> sortStrings(allRoles(e, cands)),
             roleBreakdown |-> roleBreakdown(cands) ]
      [] e = "ceoFive" ->
           LET quality == hvcQuality(cands, days, tz) IN
           [ throughput |-> throughput(cands, days),
             hvcQuality |-> quality,
             summary |-> [ conversionRate |-> latestConversionRate(quality) ] ]

-----------------------------------------------------------------------------
(* The request *)

\* the handlers of the Express server (server/notion.ts and its variants); the
\* others are the serverless functions
ServerSide == { "candidates", "pendingServer", "ceoServer", "ceoSimple", "awaitingServer" }

\* getNotionClient() then getDatabaseId(): the message of the Error thrown for
\* the first variable that is not set, null when both are
configError(e) ==
    IF ~ e.apiKey THEN Some("NOTION_API_KEY environment variable is not set")
    ELSE IF ~ e.databaseId THEN Some("NOTION_DATABASE_ID environment variable is not set")
    ELSE Null

\* the route's catch for a thrown Error: its message
ConfigErrorResponse(message) ==
    [ status |-> 500, body |-> [ success |-> FALSE, error |-> message ] ]

\* handler entry: the server functions call getNotionClient() and getDatabaseId()
\* first; the serverless modules built their client at load time from whatever
\* the environment held and check nothing.  Then
\* `const thirtyDaysAgo = new Date(); setDate(getDate() - 30)`
\* (getHighValueCandidates: oneMonthAgo, one 30-day month back); the
\* pending-review handlers read no clock here
Begin ==
    /\ UNCHANGED << rerun, restVars >>
    /\ pc = "start"
    /\ entered' = now
    /\ IF endpoint \in ServerSide /\ configError(env) # Null
       THEN /\ response' = Some(ConfigErrorResponse(Val(configError(env))))
            /\ pc' = "done"
            /\ UNCHANGED thirtyDaysAgo
       ELSE /\ thirtyDaysAgo' = IF endpoint \in { "pendingServer", "pendingApi" }
                                THEN thirtyDaysAgo
                                ELSE setDateBack(now, CutoffDays)
            /\ pc' = "fetch"
            /\ UNCHANGED response
    /\ UNCHANGED << endpoint, db, tz, now, ticksLeft, startCursor, hasMore, allPages,
                    sent, answers, candidates, allDays >>

\* where the handler goes once its pages are in hand
AfterFetch == "map"
AfterMap(e) == IF e \in HasWindow THEN "days" ELSE "respond"

\* `notion.databases.query({..., start_cursor: startCursor})` is called: the
\* request leaves with the current token and the handler awaits the answer
SendQuery ==
    /\ UNCHANGED << rerun, restVars >>
    /\ pc = "fetch"
    /\ sent' = Append(sent, startCursor)
    /\ pc' = "await"
    /\ UNCHANGED << endpoint, db, tz, now, ticksLeft, entered, thirtyDaysAgo, startCursor,
                    hasMore, allPages, answers, candidates, allDays, response >>

\* a loop that never takes the answer's token
sameToken(r) == Null

\* `startCursor = response.next_cursor ?? undefined`
nextToken(r) == r.next_cursor

\* the awaited query is answered.  A paging loop appends the page and goes
\* round while has_more; the other handlers take the one answer.
\* what the handler does with the answer r of the awaited query
TakeAnswer(r) ==
    /\ UNCHANGED << rerun, restVars >>
    /\ pc = "await"
    /\ UNCHANGED sent
    /\ answers' = Append(answers, r.has_more)
    /\ allPages' = allPages \o r.results
    /\ IF endpoint \in Paginated
       THEN /\ hasMore' = r.has_more
            /\ startCursor' = nextToken(r)
            /\ pc' = IF r.has_more THEN "fetch" ELSE AfterFetch
       ELSE /\ UNCHANGED << hasMore, startCursor >>
            /\ pc' = AfterFetch
    /\ UNCHANGED << endpoint, db, tz, now, ticksLeft, entered, thirtyDaysAgo,
                    candidates, allDays, response >>

QueryOk ==
    /\ env.apiKey /\ env.databaseId    \* the store answers only a query that
                                       \* carries a credential and names a database
    /\ TakeAnswer(StoreQuery(endpoint, db, thirtyDaysAgo, sent[Len(sent)]))

\* a catch that answers with what was fetched so far
PartialResponse == [ status |-> 200, body |-> [ success |-> TRUE, data |-> allPages ] ]

\* the body of the route's `catch (error)`: res.status(500).json({...})
ErrorResponse == [ status |-> 500, body |-> [ success |-> FALSE, error |-> "Error.message" ] ]

\* the same catch reached by a TypeError thrown while normalising a page
TypeErrorResponse ==
    [ status |-> 500,
      body |-> [ success |-> FALSE, error |-> "Cannot read properties of undefined" ] ]

\* the query rejects: the exception leaves the loop and reaches the route's catch
QueryFail ==
    /\ UNCHANGED << rerun, restVars >>
    /\ pc = "await"
    /\ response' = Some(ErrorResponse)
    /\ pc' = "done"
    /\ UNCHANGED << endpoint, db, tz, now, ticksLeft, entered, thirtyDaysAgo, startCursor,
                    hasMore, allPages, sent, answers, candidates, allDays >>

\* how many records (iterations) run before the clock can change again
Burst(remaining) == IF ticksLeft = 0 THEN remaining ELSE 1

\* `.map(mapPageToCandidate)`: each call reads Date.now(); the other handlers'
\* inline parse reads no clock
MapRecords ==
    /\ UNCHANGED << rerun, restVars >>
    /\ pc = "map"
    /\ Len(candidates) < Len(allPages)
    /\ LET from == Len(candidates) + 1
           n == IF endpoint \in UsesMapPage
                THEN Burst(Len(allPages) - Len(candidates))
                ELSE Len(allPages) - Len(candidates)
       IN  IF \E k \in 1 .. n : MapThrows(allPages[from + k - 1], endpoint)
           THEN /\ response' = Some(TypeErrorResponse)
                /\ pc' = "done"
                /\ UNCHANGED candidates
           ELSE /\ candidates' = candidates \o
                     [ k \in 1 .. n |->
                         IF endpoint \in UsesMapPage
                         THEN mapPageToCandidate(allPages[from + k - 1], now, endpoint)
                         ELSE parsePage(allPages[from + k - 1], endpoint) ]
                /\ UNCHANGED << pc, response >>
    /\ UNCHANGED << endpoint, db, tz, now, ticksLeft, entered, thirtyDaysAgo,
                    startCursor, hasMore, allPages, sent, answers, allDays >>

MapDone ==
    /\ UNCHANGED << rerun, restVars >>
    /\ pc = "map"
    /\ Len(candidates) = Len(allPages)
    /\ pc' = AfterMap(endpoint)
    /\ UNCHANGED << endpoint, db, tz, now, ticksLeft, entered, thirtyDaysAgo, startCursor,
                    hasMore, allPages, sent, answers, candidates, allDays, response >>

\* `for (let i = 29; i >= 0; i--) { const d = new Date(); ... }`: every
\* iteration reads the clock.  getLast30Days of the five-metric handler reads
\* it once (`const now = new Date()`) and runs all iterations on that reading.
GenerateDays ==
    /\ UNCHANGED << rerun, restVars >>
    /\ pc = "days"
    /\ Len(allDays) <= WindowLast
    /\ LET remaining == WindowLast + 1 - Len(allDays)
           n == IF endpoint = "ceoFive" THEN remaining ELSE Burst(remaining)
       IN  allDays' = allDays \o
             [ k \in 1 .. n |->
                 dayBucket(endpoint, now, tz, WindowLast - (Len(allDays) + k - 1)) ]
    /\ UNCHANGED << endpoint, db, tz, now, ticksLeft, pc, entered, thirtyDaysAgo,
                    startCursor, hasMore, allPages, sent, answers, candidates,
                    response >>

DaysDone ==
    /\ UNCHANGED << rerun, restVars >>
    /\ pc = "days"
    /\ Len(allDays) = WindowLast + 1
    /\ pc' = "respond"
    /\ UNCHANGED << endpoint, db, tz, now, ticksLeft, entered, thirtyDaysAgo, startCursor,
                    hasMore, allPages, sent, answers, candidates, allDays, response >>

\* the aggregation passes and `res.json({ success: true, data })`
Respond ==
    /\ UNCHANGED << rerun, restVars >>
    /\ pc = "respond"
    /\ response' = Some([ status |-> 200,
                          body |-> [ success |-> TRUE,
                                     data |-> ResponseData(endpoint, candidates, allDays) ] ])
    /\ pc' = "done"
    /\ UNCHANGED << endpoint, db, tz, now, ticksLeft, entered, thirtyDaysAgo, startCursor,
                    hasMore, allPages, sent, answers, candidates, allDays >>

\* the wall clock crosses a half-hour grid line while the request is running
Tick ==
    /\ UNCHANGED << rerun, restVars >>
    /\ pc \notin { "start", "done" }
    /\ ticksLeft > 0
    /\ now' = now + 1
    /\ ticksLeft' = ticksLeft - 1
    /\ UNCHANGED << endpoint, db, tz, pc, entered, thirtyDaysAgo, startCursor, hasMore,
                    allPages, sent, answers, candidates, allDays, response >>

\* the whole aggregation as one function of the fetched pages, one clock value
\* and the zone: normalise every page, generate the day buckets, aggregate
Aggregate(e, pages, clock, off) ==
    LET cands == [ i \in DOMAIN pages |->
                     IF e \in UsesMapPage THEN mapPageToCandidate(pages[i], clock, e)
                     ELSE parsePage(pages[i], e) ]
        days == IF e \in HasWindow
                THEN [ i \in 1 .. WindowLast + 1 |-> dayBucket(e, clock, off, WindowLast + 1 - i) ]
                ELSE << >>
    IN  ResponseData(e, cands, days)

\* a clock that moved on before the second run
RerunClockLater == now + 1

\* the clock value every read of the second run returns
RerunClock == now

\* the aggregation is run a second time over the same fetched pages
Rerun ==
    /\ pc = "done"
    /\ response # Null
    /\ Val(response).status = 200
    /\ rerun = Null
    /\ Len(allPages) <= MaxRerunRecords
    /\ rerun' = Some(Aggregate(endpoint, allPages, RerunClock, tz))
    /\ UNCHANGED << endpoint, db, tz, now, ticksLeft, pc, entered, thirtyDaysAgo,
                    startCursor, hasMore, allPages, sent, answers, candidates, allDays,
                    response, restVars >>

Next ==
    \/ Rerun
    \/ Begin
    \/ SendQuery
    \/ QueryOk
    \/ QueryFail
    \/ MapRecords
    \/ MapDone
    \/ GenerateDays
    \/ DaysDone
    \/ Respond
    \/ Tick


-----------------------------------------------------------------------------
(* Initial states: one request about to start, on a table and a clock drawn  *)
(* from one of the input families below                                      *)

SeqsUpTo(S, n) == UNION { [ 1 .. k -> S ] : k \in 0 .. n }

Table(fs) == [ i \in DOMAIN fs |-> Row(i, fs[i]) ]

Clocks == { StartOfToday + 1, StartOfToday + DayLen \div 2, StartOfToday + DayLen - 1 }
Noon == StartOfToday + DayLen \div 2
Zones == { 0 - TzShift, 0, TzShift }

\* paging: k identical rows, k up to a few pages
PagingTables == { Table([ i \in 1 .. k |-> Base ]) : k \in 0 .. MaxPagingRecords }

\* label exactness: one row, every combination of the three high-value fields
LabelRows ==
    { [ Base EXCEPT !.hot = h, !.priority = p, !.stratification = s,
                    !.hours = hr, !.status = st ] :
        h \in { Null, Some(HotLabel), Some("Hot Candidate") },
        p \in { Null, Some("1st"), Some("2nd") },
        s \in { Null, Some("H"), Some("M") },
        hr \in { Null, Some(24), Some(25) },
        st \in { Some("HR Screening"), Some("Accepted") } }

\* overdue: rows flagged or not, without hours, below and above the threshold
\* (the threshold itself is among the label rows)
OverdueRows ==
    { [ Base EXCEPT !.hot = h, !.priority = Some("2nd"), !.stratification = Some("M"),
                    !.hours = hr ] :
        h \in { Null, Some(HotLabel) },
        hr \in { Null, Some(10), Some(30) } }

\* human-review backlog: every combination of the four review conditions
ReviewRows ==
    { [ Base EXCEPT !.aiAt = a, !.cvAt = v, !.passed = pf, !.status = st ] :
        a \in { Null, Some(StartOfToday) },
        v \in { Null, Some(StartOfToday + 2) },
        pf \in BOOLEAN,
        st \in { Some("HR Screening"), Some("Company Rejected"),
                 Some("Candidate Rejected") } }

\* waiting order: rows that differ in their timestamps only
OrderRows ==
    { [ Base EXCEPT !.aiAt = Some(a), !.created = c ] :
        a \in { StartOfToday - 2, StartOfToday },
        c \in { StartOfToday - 4, StartOfToday - 2 } }

\* scores: rows added today or yesterday, with and without the two scores
ScoreRows ==
    { [ Base EXCEPT !.created = c, !.aiScore = ai, !.humanScore = hs ] :
        c \in { StartOfToday + 2, StartOfToday - DayLen },
        ai \in { Null, Some(6), Some(8) },
        hs \in { Null, Some(5), Some(9) } }

\* week start: one interview-stage row added on each of eight consecutive days
WeekdayRows ==
    { [ Base EXCEPT !.status = Some("CEO Interview"), !.created = StartOfToday - k * DayLen + 2 ] :
        k \in 0 .. 7 }

\* week grouping: rows in and out of the interview stage, added today (a Tuesday),
\* last Sunday or the Monday before it, with and without hours
WeekRows ==
    LET added == { StartOfToday + 2, StartOfToday - 2 * DayLen + 2,
                   StartOfToday - 8 * DayLen + 2 }
    IN  { [ Base EXCEPT !.status = Some("CEO Interview"), !.created = c, !.hours = hr ] :
            c \in added, hr \in { Null, Some(0), Some(36) } }
        \cup { [ Base EXCEPT !.status = Some("HR Screening"), !.created = c,
                             !.hours = Some(36) ] : c \in added }

\* running totals: rows added today, one and three days ago and before the
\* window, above and below the backlog's score threshold
TrendRows ==
    { [ Base EXCEPT !.created = StartOfToday - k * DayLen + 2 ] : k \in { 0, 1, 3, 40 } }
    \cup { [ Base EXCEPT !.created = StartOfToday + 2, !.aiScore = Some(5) ] }

\* conversion rates: high-value or not, with and without an interview, added
\* one or two days ago
RateRows ==
    { [ Base EXCEPT !.hot = h, !.interview = iv, !.created = StartOfToday - k * DayLen + 2 ] :
        h \in { Null, Some(HotLabel) },
        iv \in { Null, Some("Completed"), Some("None") },
        k \in { 1, 2 } }

\* malformed properties: a title without its array, a formula without its
\* object, a Role that is absent or of an unknown kind
ShapeRows ==
    { Base,
      [ Base EXCEPT !.nameShape = "missing" ],
      [ Base EXCEPT !.hoursShape = "missing" ],
      [ Base EXCEPT !.roleShape = "absent" ],
      [ Base EXCEPT !.roleShape = "people" ] }

\* window edge: unverified rows added today, 29 days ago, and 30 days ago half an
\* hour before and one hour after the time of day of the request, and a verified
\* row added today
EdgeRows ==
    { [ Base EXCEPT !.created = c ] :
        c \in { StartOfToday + 2, Noon - WindowLast * DayLen,
                Noon - CutoffDays * DayLen - 1, Noon - CutoffDays * DayLen + 2 } }
    \cup { [ Base EXCEPT !.created = StartOfToday + 2, !.cvAt = Some(StartOfToday + 4) ] }

\* sort order: rows that differ in their AI score
SortRows == { [ Base EXCEPT !.aiScore = ai ] : ai \in { Some(5), Some(8), Some(9) } }

-----------------------------------------------------------------------------
(* The dashboard hooks useCandidates and usePendingReview *)

Hooks == { "useCandidates", "usePendingReview" }

\* `autoRefreshInterval = 5 * 60 * 1000`
DefaultInterval == 5 * 60 * 1000

\* the useState initial values, before the effect has run
BeforeMount(h) ==
    /\ hook = h
    /\ mounted = "no"
    /\ shown = << >>
    /\ loading = TRUE
    /\ error = Null
    /\ lastUpdated = Null
    /\ interval = Null
    /\ elapsed = 0
    /\ inFlight = { }
    /\ fetches = 0
    /\ fired = 0
    /\ clicks = 0
    /\ served = 0
    /\ lastStep = Null
    /\ delivered = [ f \in 1 .. MaxFetches |-> Null ]

\* the lists a success response can carry
Lists == { << "p1" >>, << "p1", "p2" >> }

\* `error` of a success = false body: absent or a message
Refusals == { Null, Some("Notion unavailable") }

\* the messages of the errors fetch() and response.json() reject with
Rejections == { "Failed to fetch", "Unexpected token <" }

\* `data.error || '...'`
refusalMessage(h, err) ==
    IF Truthy(err) THEN Val(err)
    ELSE IF h = "useCandidates" THEN "Failed to fetch candidates"
         ELSE "Failed to fetch pending reviews"

\* fetchCandidates up to its first await: setLoading(true); setError(null);
\* fetch(url) leaves
fetchCandidates ==
    /\ fetches < MaxFetches
    /\ loading' = TRUE
    /\ error' = Null
    /\ fetches' = fetches + 1
    /\ inFlight' = inFlight \cup { fetches + 1 }
    /\ lastStep' = Null
    /\ UNCHANGED << hook, shown, lastUpdated, served, delivered >>

\* `return () => clearInterval(interval)`
clearInterval == Null

\* useEffect: fetchCandidates(); setInterval(fetchCandidates, autoRefreshInterval)
Mount ==
    /\ mounted = "no"
    /\ mounted' = "yes"
    /\ interval' = Some(DefaultInterval)
    /\ fetchCandidates
    /\ UNCHANGED << elapsed, fired, clicks, requestVars >>

\* the timer fires: fetchCandidates()
IntervalTick ==
    /\ interval # Null
    /\ elapsed' = elapsed + Val(interval)
    /\ fired' = fired + 1
    /\ fetchCandidates
    /\ UNCHANGED << mounted, interval, clicks, requestVars >>

\* the component calls refetch()
Refetch ==
    /\ mounted = "yes"
    /\ clicks' = clicks + 1
    /\ fetchCandidates
    /\ UNCHANGED << mounted, interval, elapsed, fired, requestVars >>

\* the effect's cleanup at unmount
Unmount ==
    /\ mounted = "yes"
    /\ mounted' = "gone"
    /\ interval' = clearInterval
    /\ lastStep' = Null
    /\ UNCHANGED << hook, shown, loading, error, lastUpdated, elapsed, inFlight, fetches,
                    fired, clicks, served, delivered, requestVars >>

\* what a settling fetch found and did: kept for the step after it
Settled(f, kind, data) ==
    Some([ id |-> f, kind |-> kind, data |-> data, live |-> mounted = "yes",
           shownBefore |-> shown, lastUpdatedBefore |-> lastUpdated ])

\* fetch f answered with success = true: setCandidates(data.data);
\* setLastUpdated(new Date(data.timestamp)); finally setLoading(false).
\* The setters of a component that is gone change nothing.
FetchSucceeds(f) ==
    /\ f \in inFlight
    /\ inFlight' = inFlight \ { f }
    /\ served' = served + 1
    /\ \E data \in Lists :
          /\ lastStep' = Settled(f, "ok", data)
          /\ IF mounted = "yes"
             THEN /\ shown' = data
                  /\ lastUpdated' = Some(served')
                  /\ loading' = FALSE
                  /\ delivered' = [ delivered EXCEPT
                                      ![f] = Some([ data |-> data, timestamp |-> served' ]) ]
             ELSE UNCHANGED << shown, lastUpdated, loading, delivered >>
    /\ UNCHANGED << hook, mounted, error, interval, elapsed, fetches, fired, clicks,
                    requestVars >>

\* setError(message) in the catch, then finally setLoading(false)
failWith(f, kind, message) ==
    /\ f \in inFlight
    /\ inFlight' = inFlight \ { f }
    /\ lastStep' = Settled(f, kind, << >>)
    /\ IF mounted = "yes"
       THEN /\ error' = Some(message)
            /\ loading' = FALSE
       ELSE UNCHANGED << error, loading >>
    /\ UNCHANGED << hook, mounted, shown, lastUpdated, interval, elapsed, fetches, fired,
                    clicks, served, delivered, requestVars >>

\* fetch f answered with success = false: throw new Error(data.error || '...')
FetchRefused(f) ==
    \E err \in Refusals : failWith(f, "refused", refusalMessage(hook, err))

\* fetch(url) or response.json() of fetch f rejected
FetchRejects(f) ==
    \E message \in Rejections : failWith(f, "rejected", message)

\* fetch f settles, one way or another
Settles(f) == FetchSucceeds(f) \/ FetchRefused(f) \/ FetchRejects(f)

FullEnv == [ apiKey |-> TRUE, databaseId |-> TRUE ]

\* the environments that lack the credential, the database identifier or both
IncompleteEnvs == [ apiKey : BOOLEAN, databaseId : BOOLEAN ] \ { FullEnv }

Requests == 1 .. MaxRequests

\* a request that has not reached the server yet
NotArrived ==
    [ endpoint |-> "none", pc |-> "idle", notion |-> Null, thirtyDaysAgo |-> 0,
      startCursor |-> Null, allPages |-> << >>, queries |-> 0, response |-> Null ]

\* the request's own variables at handler entry
RequestStart(e, table, zone, clock, ticks, environment) ==
    /\ endpoint = e
    /\ db = table
    /\ tz = zone
    /\ now = clock
    /\ ticksLeft = ticks
    /\ pc = "start"
    /\ entered = clock
    /\ thirtyDaysAgo = 0
    /\ startCursor = Null
    /\ hasMore = TRUE
    /\ allPages = << >>
    /\ sent = << >>
    /\ answers = << >>
    /\ candidates = << >>
    /\ allDays = << >>
    /\ response = Null
    /\ rerun = Null
    /\ env = environment
    /\ notionClient = Null
    /\ clientsMade = 0
    /\ reqs = [ r \in Requests |-> NotArrived ]

StartIn(e, table, zone, clock, ticks, environment) ==
    /\ RequestStart(e, table, zone, clock, ticks, environment)
    /\ BeforeMount("useCandidates")

Start(e, table, zone, clock, ticks) == StartIn(e, table, zone, clock, ticks, FullEnv)

Init ==
    \/ \E e \in Endpoints, t \in PagingTables : Start(e, t, 0, Noon, 0)
    \/ \E e \in { "candidates", "ceoBacklog", "ceoFive" }, f \in LabelRows :
          Start(e, Table(<< f >>), 0, Noon, 0)
    \/ \E e \in { "candidates", "ceoBacklog" }, fs \in SeqsUpTo(OverdueRows, MaxFilterRecords) :
          Start(e, Table(fs), 0, Noon, 0)
    \/ \E e \in { "pendingServer", "pendingApi" },
          fs \in SeqsUpTo(ReviewRows, MaxReviewRecords) :
          Start(e, Table(fs), 0, Noon, 0)
    \/ \E e \in { "pendingServer", "pendingApi" },
          fs \in SeqsUpTo(OrderRows, MaxOrderRecords), k \in 0 .. MaxTicks :
          Start(e, Table(fs), 0, Noon, k)
    \/ \E e \in HasWindow, z \in Zones, c \in Clocks, k \in 0 .. MaxTicks :
          \E fs \in { << >>, << [ Base EXCEPT !.created = c ] >>,
                      << [ Base EXCEPT !.created = c - DayLen ] >> } :
             Start(e, Table(fs), z, c, k)
    \/ \E e \in { "ceoServer", "ceoApi" }, fs \in SeqsUpTo(ScoreRows, MaxScoreRecords) :
          Start(e, Table(fs), 0, Noon, 0)
    \/ \E e \in { "ceoServer", "ceoApi" }, z \in Zones, f \in WeekdayRows :
          Start(e, Table(<< f >>), z, Noon, 0)
    \/ \E e \in { "ceoServer", "ceoApi" }, fs \in SeqsUpTo(WeekRows, MaxWeekRecords) :
          Start(e, Table(fs), 0, Noon, 0)
    \/ \E fs \in SeqsUpTo(TrendRows, MaxTrendRecords) :
          Start("ceoBacklog", Table(fs), 0, Noon, 0)
    \/ \E e \in { "ceoSimple", "ceoFive" }, fs \in SeqsUpTo(RateRows, MaxRateRecords) :
          Start(e, Table(fs), 0, Noon, 0)
    \/ \E e \in Endpoints, fs \in SeqsUpTo(ShapeRows, MaxShapeRecords) :
          Start(e, Table(fs), 0, Noon, 0)
    \/ \E e \in Endpoints, v \in IncompleteEnvs :
          StartIn(e, Table(<< Base >>), 0, Noon, 0, v)
    \/ \E e \in { "awaitingServer", "awaitingApi" },
          fs \in SeqsUpTo(SortRows, MaxSortRecords) :
          Start(e, Table(fs), 0, Noon, 0)
    \/ \E e \in { "ceoServer", "ceoSimple" }, fs \in SeqsUpTo(EdgeRows, MaxEdgeRecords) :
          Start(e, Table(fs), 0, Noon, 0)

Spec == Init /\ [][Next]_vars

(* The server process: one module-level client handle, several requests.  Every
   await of a handler is a point where another request's steps can run; between
   two awaits a handler runs alone (one JavaScript thread).  *)

\* the routes of server/index.ts
Routes == { "candidates", "pendingServer", "ceoServer", "awaitingServer" }

\* what every action of the server process leaves alone
soloVars == << endpoint, db, tz, now, ticksLeft, pc, entered, thirtyDaysAgo, startCursor,
              hasMore, allPages, sent, answers, candidates, allDays, response, rerun,
              hookVars >>

\* a getNotionClient without the `if (!notionClient)`: a client per call
newClientEachCall(handle, made, key) ==
    IF ~ key THEN [ threw |-> TRUE, handle |-> handle, made |-> made ]
    ELSE [ threw |-> FALSE, handle |-> Some(made + 1), made |-> made + 1 ]

\* getNotionClient(): the handle it returns and leaves in notionClient; the n-th
\* `new Client` is the handle n
getNotionClient(handle, made, key) ==
    IF IsNull(handle)
    THEN IF ~ key THEN [ threw |-> TRUE, handle |-> handle, made |-> made ]
         ELSE [ threw |-> FALSE, handle |-> Some(made + 1), made |-> made + 1 ]
    ELSE [ threw |-> FALSE, handle |-> handle, made |-> made ]

\* an accumulator shared by the requests: everything fetched so far by anyone
pushShared(own, results) ==
    LET RECURSIVE Everything(_)
        Everything(r) == IF r = 0 THEN << >> ELSE Everything(r - 1) \o reqs[r].allPages
    IN  Everything(MaxRequests) \o results

\* `allPages.push(...response.results)` on the handler's own `const allPages`
push(own, results) == own \o results

\* from the last await to res.json: normalise, aggregate, respond
Finish(e, pages, clock, off) ==
    IF \E i \in DOMAIN pages : MapThrows(pages[i], e)
    THEN Some(TypeErrorResponse)
    ELSE Some([ status |-> 200,
                body |-> [ success |-> TRUE, data |-> Aggregate(e, pages, clock, off) ] ])

\* handler entry up to the first await: getNotionClient(), getDatabaseId(), the
\* cutoff
Arrive(r, e) ==
    /\ reqs[r].pc = "idle"
    /\ LET got == getNotionClient(notionClient, clientsMade, env.apiKey) IN
       /\ notionClient' = got.handle
       /\ clientsMade' = got.made
       /\ reqs' = [ reqs EXCEPT ![r] =
            IF got.threw \/ ~ env.databaseId
            THEN [ @ EXCEPT !.endpoint = e, !.pc = "done",
                            !.notion = IF got.threw THEN Null ELSE got.handle,
                            !.response = Some(ConfigErrorResponse(Val(configError(env)))) ]
            ELSE [ @ EXCEPT !.endpoint = e, !.pc = "fetch",
                            !.notion = got.handle,
                            !.thirtyDaysAgo = IF e = "pendingServer" THEN 0
                                              ELSE setDateBack(now, CutoffDays) ] ]
    /\ UNCHANGED << env, soloVars >>

\* `await notion.databases.query({ start_cursor: startCursor, ... })` is sent
Ask(r) ==
    /\ reqs[r].pc = "fetch"
    /\ reqs' = [ reqs EXCEPT ![r].pc = "await", ![r].queries = @ + 1 ]
    /\ UNCHANGED << env, notionClient, clientsMade, soloVars >>

\* the query resolves; the handler runs to its next await or to res.json
Answered(r) ==
    /\ reqs[r].pc = "await"
    /\ LET q == reqs[r]
           a == StoreQuery(q.endpoint, db, q.thirtyDaysAgo, q.startCursor)
           pages == push(q.allPages, a.results)
       IN  reqs' = [ reqs EXCEPT ![r] =
             IF q.endpoint \in Paginated /\ a.has_more
             THEN [ q EXCEPT !.allPages = pages, !.startCursor = a.next_cursor,
                             !.pc = "fetch" ]
             ELSE [ q EXCEPT !.allPages = pages, !.pc = "done",
                             !.response = Finish(q.endpoint, pages, now, tz) ] ]
    /\ UNCHANGED << env, notionClient, clientsMade, soloVars >>

\* the query rejects and the route's catch answers 500
Rejected(r) ==
    /\ reqs[r].pc = "await"
    /\ reqs' = [ reqs EXCEPT ![r].pc = "done", ![r].response = Some(ErrorResponse) ]
    /\ UNCHANGED << env, notionClient, clientsMade, soloVars >>

\* process.env.NOTION_API_KEY is read at every call that finds no handle; the
\* variable is assigned in the process between two requests
KeyAssigned ==
    /\ ~ env.apiKey
    /\ env' = [ env EXCEPT !.apiKey = TRUE ]
    /\ UNCHANGED << serverVars, soloVars >>

\* the table the requests read: every third row has the higher AI score (first
\* in the awaiting-review order, last in the others), is not hot and has passed
\* the human filter (outside the filters of the two candidate lists)
ServerRow(i) ==
    IF i % 3 = 0
    THEN [ Base EXCEPT !.aiScore = Some(9), !.hot = Null, !.passed = TRUE ]
    ELSE Base

ServerInit ==
    \E k \in 0 .. MaxServerRecords,
       environment \in [ apiKey : BOOLEAN, databaseId : { TRUE } ] \cup
                       { [ apiKey |-> TRUE, databaseId |-> FALSE ] } :
        StartIn("ceoServer", Table([ i \in 1 .. k |-> ServerRow(i) ]), 0, Noon, 0,
                environment)

ServerNext ==
    \/ \E r \in Requests, e \in Routes : Arrive(r, e)
    \/ \E r \in Requests : Ask(r)
    \/ \E r \in Requests : Answered(r)
    \/ \E r \in Requests : Rejected(r)
    \/ KeyAssigned

ServerSpec == ServerInit /\ [][ServerNext]_vars

\* the paging loop against a store whose has_more and next_cursor are anything:
\* the page is the one the token sent names, the rest of the answer is free
AnyAnswer ==
    \E more \in BOOLEAN, cursor \in { Null } \cup { Some(k) : k \in 1 .. MaxLoopRecords } :
        TakeAnswer([ results |-> StoreQuery(endpoint, db, thirtyDaysAgo,
                                            sent[Len(sent)]).results,
                     has_more |-> more,
                     next_cursor |-> cursor ])

\* the loop goes round as long as it is told to; the model follows it for
\* MaxQueries queries
SendQueryAgain == Len(sent) < MaxQueries /\ SendQuery

LoopInit ==
    \E e \in { "ceoServer", "ceoApi", "awaitingServer" }, k \in 0 .. MaxLoopRecords :
        Start(e, Table([ i \in 1 .. k |-> Base ]), 0, Noon, 0)

LoopNext ==
    \/ Begin
    \/ SendQueryAgain
    \/ AnyAnswer
    \/ MapRecords
    \/ MapDone
    \/ GenerateDays
    \/ DaysDone
    \/ Respond

LoopSpec == LoopInit /\ [][LoopNext]_vars

\* one life of a dashboard component: the request variables stand still
HookInit ==
    /\ RequestStart("candidates", Table(<< Base >>), 0, Noon, 0, FullEnv)
    /\ \E h \in Hooks : BeforeMount(h)

HookNext ==
    \/ Mount
    \/ IntervalTick
    \/ Refetch
    \/ Unmount
    \/ \E f \in 1 .. MaxFetches : FetchSucceeds(f)
    \/ \E f \in 1 .. MaxFetches : FetchRefused(f)
    \/ \E f \in 1 .. MaxFetches : FetchRejects(f)

\* a fetch that was sent settles: the promise resolves or rejects, and the
\* event loop then runs the rest of fetchCandidates through its finally
HookSpec ==
    HookInit /\ [][HookNext]_vars /\ \A f \in 1 .. MaxFetches : WF_vars(Settles(f))


-----------------------------------------------------------------------------
(* Reading the finished request *)

Done200 == pc = "done" /\ response # Null /\ Val(response).status = 200
Data == Val(response).body.data
Ids(s) == [ i \in DOMAIN s |-> s[i].id ]
\* the request ended on a query that was sent and never answered
QueryFailed == pc = "done" /\ Len(sent) > Len(answers)

-----------------------------------------------------------------------------
(* Collection Fetcher *)

\* C1: for every endpoint, the pages a successful request works on are all the
\* rows the store holds for the endpoint's filter, however many pages that takes.
C1_WorksOnCompleteSet ==
    Done200 => allPages = Matching(endpoint, db, thirtyDaysAgo)

\* C2: in the paginated endpoints a failed page request, first or later, ends the
\* request with 500 {success: false, error} carrying no data, no query follows
\* the failed one, and a 200 is written only after an answer with has_more = false.
C2_FailureAbortsRequest ==
    endpoint \in Paginated =>
        /\ Len(sent) <= Len(answers) + 1
        /\ QueryFailed =>
              /\ pc = "done"
              /\ response # Null
              /\ Val(response).status = 500
              /\ Val(response).body.success = FALSE
              /\ DOMAIN Val(response).body = { "success", "error" }
        /\ (response # Null /\ Val(response).status = 200) =>
              /\ ~ QueryFailed
              /\ answers # << >>
              /\ answers[Len(answers)] = FALSE
              /\ \A i \in 1 .. Len(answers) - 1 : answers[i] = TRUE

\* a paginated request whose second page request failed after a good first page
C2_Witness ==
    /\ endpoint \in Paginated
    /\ Len(sent) = 2
    /\ answers = << TRUE >>
    /\ allPages # << >>
    /\ pc = "done"
    /\ Val(response).status = 500

-----------------------------------------------------------------------------
(* Filter predicates, read off the raw rows *)

RawHot(page) == StoreVal(page, "Hot Candidate?") = Some(HotLabel)

RawHvc(page) ==
    \/ RawHot(page)
    \/ StoreVal(page, "Priority") = Some("1st")
    \/ StoreVal(page, "Stratification") = Some("H")

RawOverdue(page) ==
    LET h == StoreVal(page, "Hours Since Last Activity") IN h = Null \/ Val(h) > 24

RawActive(page) ==
    StoreVal(page, "Status") \notin
        { Some("Company Rejected"), Some("Candidate Rejected"), Some("Accepted") }

RawPending(page) ==
    /\ StoreVal(page, "AI Processed At") # Null
    /\ StoreVal(page, "CV Verified by Lynn") = Null
    /\ StoreVal(page, "Passed Human Filter") = Some(FALSE)
    /\ StoreVal(page, "Status") \notin { Some("Company Rejected"), Some("Candidate Rejected") }

\* C3: a record is classified high-value iff its 'Hot Candidate?' label is exactly
\* the canonical label, or its priority is '1st', or its stratification is 'H';
\* so hot = false, '2nd', 'M' gives false and any one condition alone gives true.
C3_HvcExact ==
    /\ endpoint = "ceoFive" =>
          \A i \in DOMAIN candidates : candidates[i].isHVC = RawHvc(allPages[i])
    /\ endpoint = "ceoBacklog" =>
          \A i \in DOMAIN candidates : candidates[i].isHvc = RawHvc(allPages[i])
    /\ endpoint \in UsesMapPage =>
          \A i \in DOMAIN candidates : candidates[i].hotCandidate = RawHot(allPages[i])

\* the label is a proper prefix of the canonical one, priority '2nd', stratification
\* 'M': classified not high-value
C3_Witness ==
    /\ endpoint = "ceoFive"
    /\ pc = "done"
    /\ Len(candidates) = 1
    /\ StoreVal(allPages[1], "Hot Candidate?") = Some("Hot Candidate")
    /\ StoreVal(allPages[1], "Priority") = Some("2nd")
    /\ StoreVal(allPages[1], "Stratification") = Some("M")
    /\ ~ candidates[1].isHVC

\* the spec's scenario: hours [10, null, 30], high-value flags [true, true, false]
ScenarioTable ==
    Table(<< [ Base EXCEPT !.priority = Some("2nd"), !.stratification = Some("M"),
                           !.hours = Some(10) ],
             [ Base EXCEPT !.priority = Some("2nd"), !.stratification = Some("M"),
                           !.hours = Null ],
             [ Base EXCEPT !.priority = Some("2nd"), !.stratification = Some("M"),
                           !.hours = Some(30), !.hot = Null ] >>)

C5_NullHoursCountedOverdue ==
    (endpoint = "ceoBacklog" /\ Done200) =>
        Data.summary.totalOverdueHvc >=
            Cardinality({ i \in DOMAIN allPages :
                            /\ RawHvc(allPages[i])
                            /\ RawActive(allPages[i])
                            /\ StoreVal(allPages[i], "Hours Since Last Activity") = Null })

\* C6: the list of /api/pending-review holds exactly the candidates that are AI
\* processed, not verified, not passed by the human filter and not rejected.
C6_PendingExactly ==
    (endpoint \in { "pendingServer", "pendingApi" } /\ Done200) =>
        Range(Ids(Data)) = { db[i].id : i \in { j \in DOMAIN db : RawPending(db[j]) } }

-----------------------------------------------------------------------------
(* Ordering and the 30-day window *)

\* C7: the pending-review list is ordered longest-waiting first: for entries a
\* before b, a.hoursSinceAiReview >= b.hoursSinceAiReview, in both variants.
C7_LongestWaitingFirst ==
    (endpoint \in { "pendingServer", "pendingApi" } /\ Done200) =>
        \A i, j \in DOMAIN Data :
            (i < j /\ Data[i].hoursSinceAiReview # Null /\ Data[j].hoursSinceAiReview # Null)
                => Val(Data[i].hoursSinceAiReview) >= Val(Data[j].hoursSinceAiReview)

\* the dates of each gap-filled daily series of the response
DailySeries ==
    CASE endpoint \in { "ceoServer", "ceoApi" } ->
             { Data.responseTimeTrend, Data.applicationsByDay }
      [] endpoint = "ceoSimple" -> { Data.dailyData }
      [] endpoint = "ceoBacklog" -> { Data.backlogTrend, Data.overdueHvcTrend }
      [] OTHER -> { }

\* C8: each gap-filled daily series has exactly 30 entries, on 30 consecutive
\* calendar days in ascending order, whatever was fetched and however much time
\* passes while the series is built.
C8_ThirtyConsecutiveDays ==
    Done200 =>
        \A series \in DailySeries :
            /\ Len(series) = 30
            /\ \A i \in 1 .. Len(series) - 1 : series[i + 1].date = series[i].date + 1

\* C9: in every zone the window ends today by local calendar day: the last bucket
\* is today's local date, the first is 29 days earlier, and a candidate added
\* on today's local date is counted in the last bucket.
C9_WindowEndsLocalToday ==
    (endpoint \in HasWindow /\ Done200 /\ now = entered) =>
        LET today == localDate(entered, tz)
            addedToday == Cardinality({ i \in DOMAIN allPages :
                                          isoDate(allPages[i].created_time) = today })
        IN  /\ Len(allDays) = 30
            /\ allDays[30] = today
            /\ allDays[1] = today - 29
            /\ endpoint \in { "ceoServer", "ceoApi" } =>
                   Data.applicationsByDay[30].total = addedToday
            /\ endpoint = "ceoSimple" => Data.dailyData[30].newCandidates = addedToday

\* the rows that enter graph 2: AI score >= 7 and a human score
RawBothScores(page) ==
    /\ StoreVal(page, "AI Score") # Null
    /\ Val(StoreVal(page, "AI Score")) >= 7
    /\ StoreVal(page, "Human Score") # Null

ScoredOn(day) ==
    { i \in DOMAIN allPages :
        RawBothScores(allPages[i]) /\ isoDate(allPages[i].created_time) = day }

-----------------------------------------------------------------------------
(* Week grouping *)

\* a row in the interview stage
RawInterview(page) ==
    \E st \in INTERVIEW_STATUSES : StoreVal(page, "Status") = Some(st)

\* C11: in every zone getWeekStart returns the Monday of the input date's week: each
\* week key is a Monday, 0 to 6 days before the date it was computed from (so a
\* Sunday yields the date 6 days earlier, a Wednesday 2 days earlier, a Monday itself).
C11_WeekStartIsMonday ==
    (endpoint \in { "ceoServer", "ceoApi" } /\ Done200) =>
        LET trend == Data.timeToInterviewTrend IN
        /\ \A k \in DOMAIN trend : DayOfWeek(trend[k].week) = 1
        /\ \A i \in DOMAIN allPages :
              RawInterview(allPages[i]) =>
                  \E k \in DOMAIN trend :
                      LET d == isoDate(allPages[i].created_time) IN
                      /\ trend[k].week <= d
                      /\ trend[k].week >= d - 6

-----------------------------------------------------------------------------
(* Running totals *)

\* a row of the HR backlog: AI score >= 7 and status HR Screening or HM CV Screening
RawBacklog(page) ==
    /\ StoreVal(page, "AI Score") # Null
    /\ Val(StoreVal(page, "AI Score")) >= 7
    /\ StoreVal(page, "Status") \in { Some("HR Screening"), Some("HM CV Screening") }

\* a row the handler lists as overdue HVC (hours present and above 24)
RawListedOverdue(page) ==
    /\ RawHvc(page)
    /\ RawActive(page)
    /\ StoreVal(page, "Hours Since Last Activity") # Null
    /\ Val(StoreVal(page, "Hours Since Last Activity")) > 24

\* the day's increment: the fetched rows of the kind that were added on that date
Increment(Member(_), date) ==
    Cardinality({ i \in DOMAIN allPages :
                    Member(allPages[i]) /\ isoDate(allPages[i].created_time) = date })

\* count[1] = inc[1], count[i] = count[i-1] + inc[i], non-decreasing, last = sum
IsRunningTotal(series, Member(_)) ==
    LET inc(i) == Increment(Member, series[i].date) IN
    /\ series # << >> => series[1].count = inc(1)
    /\ \A i \in 2 .. Len(series) :
          /\ series[i].count = series[i - 1].count + inc(i)
          /\ series[i].count >= series[i - 1].count
    /\ series # << >> =>
          series[Len(series)].count = SeqSum([ i \in DOMAIN series |-> inc(i) ])

\* C12: backlogTrend and overdueHvcTrend are running totals of their daily
\* increments: the first count is the first day's increment, every later count is
\* the previous count plus that day's increment, the series never decreases and
\* its last count is the sum of the increments of the window's days.
C12_CumulativeSeries ==
    (endpoint = "ceoBacklog" /\ Done200) =>
        /\ IsRunningTotal(Data.backlogTrend, RawBacklog)
        /\ IsRunningTotal(Data.overdueHvcTrend, RawListedOverdue)
        /\ \A i \in DOMAIN Data.backlogTrend :
              Data.backlogTrend[i].newItems = Increment(RawBacklog, Data.backlogTrend[i].date)

\* three backlog rows added on three different days of the window
C12_Witness ==
    /\ endpoint = "ceoBacklog"
    /\ Done200
    /\ Len(Data.backlogTrend) = 30
    /\ Data.backlogTrend[27].count = 1
    /\ Data.backlogTrend[29].count = 2
    /\ Data.backlogTrend[30].count = 3
    /\ Data.overdueHvcTrend[30].count = 3

-----------------------------------------------------------------------------
(* Rates and averages *)

\* the fetched rows that count as converted in the simplified variant
RawWithInterview ==
    { i \in DOMAIN allPages :
        StoreVal(allPages[i], "Interview Status") \notin { Null, Some(""), Some("None"), Some("N/A") } }

\* C13: no aggregator divides by zero: a rate over a total of 0 is exactly 0, an
\* average over no contributing candidate is 0 or null, and conversionRate is
\* always an integer from 0 to 100.
C13_NoZeroDenominator ==
    Done200 =>
        /\ endpoint = "ceoSimple" =>
              /\ Data.summary.conversionRate \in 0 .. 100
              /\ allPages = << >> => Data.summary.conversionRate = 0
              /\ allPages # << >> =>
                    Data.summary.conversionRate
                        = Round(100 * Cardinality(RawWithInterview), Len(allPages))
              /\ Data.summary.avgResponseHours >= 0
              /\ (\A i \in DOMAIN allPages :
                     StoreVal(allPages[i], "Hours Since Last Activity") = Null)
                    => Data.summary.avgResponseHours = 0
              /\ \A i \in DOMAIN Data.dailyData :
                    /\ Data.dailyData[i].avgResponseHours >= 0
                    /\ Data.dailyData[i].newCandidates = 0
                          => Data.dailyData[i].avgResponseHours = 0
        /\ endpoint = "ceoFive" =>
              /\ Data.summary.conversionRate \in 0 .. 100
              /\ \A i \in DOMAIN Data.hvcQuality :
                    LET q == Data.hvcQuality[i] IN
                    /\ q.rate \in 0 .. 1000
                    /\ q.total = 0 => q.rate = 0
                    /\ q.total > 0 => q.rate = Round(1000 * q.converted, q.total)
        /\ endpoint \in { "ceoServer", "ceoApi" } =>
              /\ \A i \in DOMAIN Data.timeToInterviewTrend :
                    /\ Data.timeToInterviewTrend[i].count >= 1
                    /\ Data.timeToInterviewTrend[i].avgDays >= 0
              /\ \A i \in DOMAIN Data.responseTimeTrend :
                    Data.responseTimeTrend[i].count = 0
                        <=> Data.responseTimeTrend[i].avgHours = Null
              /\ \A i \in DOMAIN Data.aiVsHumanTrend :
                    Data.aiVsHumanTrend[i].avgDelta # Null

\* the five-metric handler over two fetched rows of which none is high-value:
\* every day's total is 0 and the rate is 0
C13_Witness ==
    /\ Done200
    /\ endpoint = "ceoFive"
    /\ Len(allPages) = 2
    /\ Len(Data.hvcQuality) = 30
    /\ Data.hvcQuality[30].total = 0
    /\ Data.hvcQuality[30].rate = 0
    /\ Data.summary.conversionRate = 0

-----------------------------------------------------------------------------
(* Record Normalizer: totality *)

\* the Role of the page is absent or carries a kind the normalizer does not know
RawRoleUnreadable(page) ==
    \/ "Role" \notin DOMAIN page.properties
    \/ page.properties["Role"].type = "people"

\* C14: getPropertyValue is total: whatever the shape of a property, it returns
\* without throwing, so a request whose queries all succeeded is answered 200;
\* an absent key and an unrecognized kind both yield null.
C14_NormalizerIsTotal ==
    /\ (pc = "done" /\ ~ QueryFailed) => Val(response).status = 200
    /\ endpoint \in UsesMapPage \cup { "awaitingServer", "awaitingApi" } =>
          \A i \in DOMAIN candidates :
              RawRoleUnreadable(allPages[i]) => candidates[i].role = Null

-----------------------------------------------------------------------------
(* Determinism and configuration *)

C16_MissingConfigFailsFast ==
    configError(env) # Null =>
        /\ sent = << >>
        /\ pc = "done" => response = Some(ConfigErrorResponse(Val(configError(env))))

-----------------------------------------------------------------------------
(* The paging loop *)

\* what the store answered to the i-th request of this request
Answer(i) == StoreQuery(endpoint, db, thirtyDaysAgo, sent[i])

RECURSIVE PagesUpTo(_)
\* the pages of the first n answers, concatenated in request order
PagesUpTo(n) == IF n = 0 THEN << >> ELSE PagesUpTo(n - 1) \o Answer(n).results

\* C18: the paging loop has at most one page request outstanding: the first
\* request carries no token, each later one is sent only after the previous answer
\* arrived with has_more = true and carries exactly its next_cursor, none is sent
\* after has_more = false, and the accumulated list is the pages concatenated in
\* request order, so the store's sort order holds across page boundaries.
C18_OneRequestAtATime ==
    endpoint \in Paginated =>
        /\ Len(sent) <= Len(answers) + 1
        /\ sent # << >> => sent[1] = Null
        /\ \A i \in 2 .. Len(sent) :
              /\ answers[i - 1] = TRUE
              /\ sent[i] = Answer(i - 1).next_cursor
        /\ allPages = PagesUpTo(Len(answers))
        /\ \A i, j \in DOMAIN allPages :
              i < j => SortKey(endpoint, allPages[i]) <= SortKey(endpoint, allPages[j])

\* awaiting-review over three rows with different scores: two pages, the best
\* score first and the lowest on the second page
C18_Witness ==
    /\ endpoint = "awaitingServer"
    /\ Done200
    /\ Len(sent) = 2
    /\ sent[2] # Null
    /\ Len(allPages) = 3
    /\ StoreVal(allPages[1], "AI Score") = Some(9)
    /\ StoreVal(allPages[3], "AI Score") = Some(5)
    /\ StoreVal(db[1], "AI Score") = Some(5)

-----------------------------------------------------------------------------
(* One clock reading per request *)

\* the cutoff, as derived from the clock read at handler entry
CutoffFromOneReading ==
    endpoint \notin { "pendingServer", "pendingApi" } =>
        thirtyDaysAgo = setDateBack(entered, CutoffDays)

\* the 30 bucket dates, as derived from the clock read at handler entry
DaysFromOneReading ==
    endpoint \in HasWindow =>
        allDays = [ i \in 1 .. WindowLast + 1 |->
                      dayBucket(endpoint, entered, tz, WindowLast + 1 - i) ]

\* every record's hoursSinceAiReview, as measured from the clock read at entry
HoursFromOneReading ==
    endpoint \in UsesMapPage =>
        \A i \in DOMAIN candidates :
            candidates[i].hoursSinceAiReview =
                mapPageToCandidate(allPages[i], entered, endpoint).hoursSinceAiReview

\* C19: within one request the fetch cutoff, each of the 30 bucket dates and every
\* candidate's hoursSinceAiReview are derived from one clock reading taken once
\* for the request, however long the request takes.
C19_OneClockReading ==
    Done200 => (CutoffFromOneReading /\ DaysFromOneReading /\ HoursFromOneReading)

-----------------------------------------------------------------------------
(* Time to interview by week *)

\* the fetched rows that enter graph 1: interview stage and a dateAdded
InterviewMembers ==
    { i \in DOMAIN candidates : RawInterview(allPages[i]) /\ candidates[i].dateAdded # Null }

\* the week key the handler files the i-th fetched row under
WeekKey(i) == getWeekStart(isoDate(Val(candidates[i].dateAdded)), tz)

\* the hours the i-th fetched row adds to its week: none when null or zero
HoursAdded ==
    [ i \in DOMAIN allPages |->
    IF StoreVal(allPages[i], "Hours Since Last Activity") = Null THEN 0
    ELSE Val(StoreVal(allPages[i], "Hours Since Last Activity")) ]

RECURSIVE SumOver(_, _)
\* the sum of the function f over the finite set S
SumOver(S, f) ==
    IF S = { } THEN 0
    ELSE LET x == CHOOSE y \in S : TRUE IN f[x] + SumOver(S \ { x }, f)

\* C20: timeToInterviewTrend has exactly one entry per week key that holds an
\* interview-stage candidate with a dateAdded, in strictly ascending order; an
\* entry's count is the number of those candidates in its week, a candidate
\* without hours adds 1 to the count and nothing to the total, and the counts
\* sum to the number of interview-stage candidates with a dateAdded.
C20_OneEntryPerWeek ==
    (endpoint \in { "ceoServer", "ceoApi" } /\ Done200) =>
        LET trend == Data.timeToInterviewTrend
            inWeek(w) == { i \in InterviewMembers : WeekKey(i) = w }
            countOf == [ k \in DOMAIN trend |-> trend[k].count ]
        IN  /\ { trend[k].week : k \in DOMAIN trend } = { WeekKey(i) : i \in InterviewMembers }
            /\ \A j, k \in DOMAIN trend : j < k => trend[j].week < trend[k].week
            /\ \A k \in DOMAIN trend :
                  /\ trend[k].count = Cardinality(inWeek(trend[k].week))
                  /\ trend[k].avgDays =
                         Round(SumOver(inWeek(trend[k].week), HoursAdded),
                               HoursPerDay * trend[k].count)
            /\ SumOver(DOMAIN trend, countOf) = Cardinality(InterviewMembers)

\* two interview-stage rows in different weeks, the earlier week's without hours,
\* the later week's with 36 hours
C20_Witness ==
    /\ endpoint = "ceoApi"
    /\ Done200
    /\ Len(Data.timeToInterviewTrend) = 2
    /\ Data.timeToInterviewTrend[1].count = 1
    /\ Data.timeToInterviewTrend[1].avgDays = 0
    /\ Data.timeToInterviewTrend[2].avgDays = 2
    /\ Cardinality(InterviewMembers) = 2

-----------------------------------------------------------------------------
(* The dashboard hooks *)

\* one fetch at mount and one per timer tick, a tick every DefaultInterval
\* milliseconds, and no timer once the component is gone
FetchesOnMountAndTicks ==
    /\ mounted = "no" => (fetches = 0 /\ interval = Null)
    /\ mounted = "yes" => interval = Some(DefaultInterval)
    /\ mounted = "gone" => interval = Null
    /\ mounted # "no" => fetches = 1 + fired + clicks
    /\ elapsed = fired * DefaultInterval

\* the step that settled a fetch of a live component left loading false
SettledSetsLoadingFalse ==
    (lastStep # Null /\ Val(lastStep).live) => loading = FALSE

\* a fetch that succeeded replaced the list and the time and left error null
SuccessReplaces ==
    (lastStep # Null /\ Val(lastStep).live /\ Val(lastStep).kind = "ok") =>
        /\ shown = Val(lastStep).data
        /\ lastUpdated # Null
        /\ lastUpdated # Val(lastStep).lastUpdatedBefore
        /\ error = Null

\* a fetch that failed set error and kept the list and the time
FailureKeeps ==
    (lastStep # Null /\ Val(lastStep).live /\ Val(lastStep).kind # "ok") =>
        /\ error # Null
        /\ shown = Val(lastStep).shownBefore
        /\ lastUpdated = Val(lastStep).lastUpdatedBefore

\* every fetch that was sent settles, and so runs its `finally`
EveryFetchSettles ==
    \A f \in 1 .. MaxFetches : (f \in inFlight) ~> (f \notin inFlight)

\* C17: the hooks fetch once on mount and once at every auto-refresh tick (every
\* 5 minutes) until unmount; every fetch sets loading back to false; a successful
\* fetch replaces candidates and lastUpdated and leaves error null; a failed fetch
\* sets error and leaves the loaded candidates and lastUpdated unchanged.
C17_HookContract ==
    /\ FetchesOnMountAndTicks
    /\ SettledSetsLoadingFalse
    /\ SuccessReplaces
    /\ FailureKeeps

-----------------------------------------------------------------------------
(* Overlapping fetches *)

\* the fetches whose success reached the setters
Delivered == { f \in 1 .. MaxFetches : delivered[f] # Null }

\* the most recently started of them
LatestDelivered == CHOOSE f \in Delivered : \A g \in Delivered : g <= f

\* C29: when fetches overlap, the candidates and lastUpdated shown once every
\* in-flight fetch has completed are those of the most recently started successful
\* fetch: a late response of an earlier fetch never overwrites a later fetch's data.
C29_LatestFetchWins ==
    (mounted = "yes" /\ inFlight = { } /\ Delivered # { }) =>
        /\ shown = Val(delivered[LatestDelivered]).data
        /\ lastUpdated = Some(Val(delivered[LatestDelivered]).timestamp)

\* C30: loading is false only when no fetch started by the hook is in flight.
C30_LoadingCoversInFlight ==
    (mounted = "yes" /\ loading = FALSE) => inFlight = { }

-----------------------------------------------------------------------------
(* Categorical aggregates *)

\* the fetched rows that enter graph 3: a status and hours
DwellMembers ==
    { i \in DOMAIN allPages :
        /\ StoreVal(allPages[i], "Status") # Null
        /\ StoreVal(allPages[i], "Hours Since Last Activity") # Null }

\* C21: stageDwellTime has exactly one entry per status carried by a candidate
\* with hours; every count is at least 1; the counts sum to the number of
\* candidates with both status and hours (null hours are left out, not counted
\* as 0); and the entries are in descending order of avgHours.
C21_DwellPerStatus ==
    (endpoint \in { "ceoServer", "ceoApi" } /\ Done200) =>
        LET dwell == Data.stageDwellTime
            countOf == [ k \in DOMAIN dwell |-> dwell[k].count ]
        IN  /\ { dwell[k].status : k \in DOMAIN dwell } =
                   { Val(StoreVal(allPages[i], "Status")) : i \in DwellMembers }
            /\ \A j, k \in DOMAIN dwell : j # k => dwell[j].status # dwell[k].status
            /\ \A k \in DOMAIN dwell :
                  /\ dwell[k].count >= 1
                  /\ dwell[k].count =
                         Cardinality({ i \in DwellMembers :
                                         StoreVal(allPages[i], "Status") = Some(dwell[k].status) })
            /\ SumOver(DOMAIN dwell, countOf) = Cardinality(DwellMembers)
            /\ \A k \in 1 .. Len(dwell) - 1 : dwell[k].avgHours >= dwell[k + 1].avgHours

\* two stages, the one fetched first with the lower average: it is listed last
C21_Witness ==
    /\ endpoint = "ceoServer"
    /\ Done200
    /\ Len(Data.stageDwellTime) = 2
    /\ Data.stageDwellTime[1].avgHours = 36
    /\ Data.stageDwellTime[2].avgHours = 0
    /\ StoreVal(allPages[1], "Hours Since Last Activity") = Some(0)

\* the role the handler files a fetched row under
RawRole(page) ==
    IF "Role" \in DOMAIN page.properties /\ page.properties["Role"].type # "people"
       /\ Truthy(StoreVal(page, "Role"))
    THEN Val(StoreVal(page, "Role")) ELSE "Unknown"

\* C22: in every variant that lists roles, roles is duplicate-free and ascending,
\* its elements are exactly the keys of roleBreakdown (no role counts as
\* 'Unknown'), and the values of roleBreakdown sum to summary.totalApplications.
C22_RolesMatchBreakdown ==
    (endpoint \in { "ceoServer", "ceoApi", "ceoBacklog" } /\ Done200) =>
        LET roles == Data.roles
            rank(r) == CHOOSE k \in DOMAIN RoleNames : RoleNames[k] = r
        IN  /\ \A j, k \in DOMAIN roles : j < k => rank(roles[j]) < rank(roles[k])
            /\ Range(roles) = DOMAIN Data.roleBreakdown
            /\ Range(roles) = { RawRole(allPages[i]) : i \in DOMAIN allPages }
            /\ SumOver(DOMAIN Data.roleBreakdown, Data.roleBreakdown) =
                   Data.summary.totalApplications

\* a row without a Role fetched before a row with one: Unknown is listed last
C22_Witness ==
    /\ endpoint = "ceoApi"
    /\ Done200
    /\ Len(allPages) = 2
    /\ RawRole(allPages[1]) = "Unknown"
    /\ Data.roles = << "Engineer", "Unknown" >>
    /\ Data.roleBreakdown["Unknown"] = 1

-----------------------------------------------------------------------------
(* The fetch window against the 30 buckets *)

\* C26: in getCEOMetrics every fetched candidate falls into exactly one of the 30
\* daily buckets: the totals of applicationsByDay sum to summary.totalApplications.
C26_BucketsCoverFetched ==
    (endpoint = "ceoServer" /\ Done200) =>
        SeqSum([ i \in DOMAIN Data.applicationsByDay |-> Data.applicationsByDay[i].total ])
            = Data.summary.totalApplications

\* C27: in the simplified variant summary.backlog never exceeds summary.totalNew.
C27_BacklogWithinTotalNew ==
    (endpoint = "ceoSimple" /\ Done200) => Data.summary.backlog <= Data.summary.totalNew

-----------------------------------------------------------------------------
(* The conversion series of the five-metric variant *)

\* the series is within its ranges (rate is in tenths of a percent)
QualityInRange ==
    \A i \in DOMAIN Data.hvcQuality :
        /\ 0 <= Data.hvcQuality[i].converted
        /\ Data.hvcQuality[i].converted <= Data.hvcQuality[i].total
        /\ 0 <= Data.hvcQuality[i].rate
        /\ Data.hvcQuality[i].rate <= 100 * 10

\* total and converted never fall from one day to the next
QualityNonDecreasing ==
    \A i \in 1 .. Len(Data.hvcQuality) - 1 :
        /\ Data.hvcQuality[i].total <= Data.hvcQuality[i + 1].total
        /\ Data.hvcQuality[i].converted <= Data.hvcQuality[i + 1].converted

\* the last day's total is the number of fetched HVCs
QualityEndsOnAllHvcs ==
    Data.hvcQuality[Len(Data.hvcQuality)].total =
        Cardinality({ i \in DOMAIN allPages : RawHvc(allPages[i]) })

\* C28: in the five-metric variant every day has 0 <= converted <= total and
\* 0 <= rate <= 100, total and converted are non-decreasing, and the last day's
\* total is the number of HVCs fetched, so summary.conversionRate is the rate
\* over all fetched HVCs.
C28_QualitySeries ==
    (endpoint = "ceoFive" /\ Done200) =>
        (QualityInRange /\ QualityNonDecreasing /\ QualityEndsOnAllHvcs)

-----------------------------------------------------------------------------
(* The paging loop against any store *)

\* the requests sent without a continuation token
TokenLess == { i \in DOMAIN sent : sent[i] = Null }

\* C25: whatever the store answers, has_more = true with a null next_cursor
\* included, the loop sends the token-less first-page request exactly once, never
\* sends a continuation token twice, and accumulates no record twice.
C25_NoPageTwice ==
    /\ sent # << >> => Cardinality(TokenLess) = 1
    /\ \A i, j \in DOMAIN sent : i # j => sent[i] # sent[j]
    /\ \A i, j \in DOMAIN allPages : i # j => allPages[i].id # allPages[j].id

-----------------------------------------------------------------------------
(* The process-wide client handle and the isolation of requests *)

\* the requests that hold a client
Holders == { r \in Requests : reqs[r].notion # Null }

\* C23: the client handle is created at most once; every request that obtains a
\* client obtains the handle the process holds, concurrent ones included; once
\* set the handle is never replaced or reset; a call that finds no credential
\* leaves the handle null, and a later call with the credential sets it.
C23_OneClient ==
    /\ [](/\ clientsMade <= 1
          /\ IsNull(notionClient) <=> clientsMade = 0
          /\ \A r \in Holders : reqs[r].notion = notionClient)
    /\ [][/\ ~ IsNull(notionClient) => notionClient' = notionClient
          /\ (IsNull(notionClient) /\ ~ IsNull(notionClient')) =>
                /\ env.apiKey
                /\ \E r \in Requests : reqs[r].pc = "idle" /\ reqs'[r].pc # "idle"
          /\ \A r \in Requests :
               (reqs[r].pc = "idle" /\ reqs'[r].pc # "idle" /\ ~ env.apiKey) =>
                  IsNull(notionClient') /\ IsNull(reqs'[r].notion)]_vars

\* a request found no credential and was answered with the error, the handle
\* stayed null, the variable was assigned, and a later request created the handle
C23_Witness ==
    /\ \E r \in Requests :
          /\ reqs[r].pc = "done"
          /\ reqs[r].response =
               Some(ConfigErrorResponse("NOTION_API_KEY environment variable is not set"))
    /\ notionClient = Some(1)

\* two requests hold the one handle at once, one of them between two page fetches
C23_SharedByTwo ==
    /\ Holders = Requests
    /\ \E r \in Requests : reqs[r].pc = "await" /\ reqs[r].queries = 2

RECURSIVE AlonePages(_, _, _, _)
\* the pages the route's loop accumulates when it is the only request
AlonePages(e, table, cutoff, cursor) ==
    LET a == StoreQuery(e, table, cutoff, cursor) IN
    IF e \in Paginated /\ a.has_more
    THEN a.results \o AlonePages(e, table, cutoff, a.next_cursor)
    ELSE a.results

\* the response of the route when it is the only request and no query rejects
AloneResponse(e) ==
    Finish(e,
           AlonePages(e, db, IF e = "pendingServer" THEN 0 ELSE setDateBack(now, CutoffDays),
                      Null),
           now, tz)

\* s is the first Len(s) elements of t
IsPrefix(s, t) == Len(s) <= Len(t) /\ s = SubSeq(t, 1, Len(s))

\* the requests that were given a client and saw no query reject
Served(r) ==
    /\ reqs[r].pc = "done"
    /\ reqs[r].notion # Null
    /\ reqs[r].response # Some(ErrorResponse)
    /\ env.databaseId

\* C24: with several requests in flight and their page fetches interleaved in any
\* order, what a request has accumulated is always the beginning of what it
\* accumulates alone, and its response is the response it gives alone.
C24_Isolation ==
    \A r \in Requests :
        /\ reqs[r].pc \in { "fetch", "await", "done" } /\ reqs[r].notion # Null /\ env.databaseId =>
              IsPrefix(reqs[r].allPages,
                       AlonePages(reqs[r].endpoint, db, reqs[r].thirtyDaysAgo, Null))
        /\ Served(r) => reqs[r].response = AloneResponse(reqs[r].endpoint)

\* two requests to different routes with different pages: the first has answered
\* from two pages while the second, with one page in hand, waits for its
\* second, so the second one's first fetch ran before the first one's last
C24_Witness ==
    /\ Served(1) /\ reqs[1].queries = 2 /\ reqs[1].response[1].status = 200
    /\ reqs[2].pc = "await" /\ reqs[2].queries = 2
    /\ reqs[1].endpoint # reqs[2].endpoint
    /\ reqs[2].allPages # << >>
    /\ ~ IsPrefix(reqs[2].allPages, reqs[1].allPages)

====
